---- MODULE Spec2Model ----
(***************************************************************************)
(* Tiling in SMAUG: the tiled element-wise operator of the custom-operator *)
(* tutorial (docs/source/tutorial.dox) and the tiling optimizer described  *)
(* in the tiling-optimizer page (unnamed/part_000): the strategy search,   *)
(* tile generation and flattening for one tensor, and the search of the    *)
(* tile shapes of a convolution. With them: the inner product operator     *)
(* (operators/inner_product_op.h), the convolution kernel of the SMV       *)
(* backend (convolution_simd.c) and nnet_mkl::matrix_multiply_with_bias    *)
(* (core/backend.h).                                                       *)
(*                                                                         *)
(* Tensors are kept as their storage: a sequence of storageSize() element  *)
(* values, row major, the last dimension padded up to the alignment.       *)
(* Indices of tiles and of elements are 0-based as in the C++ code; the    *)
(* TLA+ sequence position is the index plus one.                           *)
(***************************************************************************)
EXTENDS Integers, Sequences, FiniteSets, TLC

VARIABLES
    kSpadSize,      \* ref::kSpadSize, bytes; 0 before initGlobals()
    inputs,         \* the operator's input tensors <<input0, input1>>, <<>> before they are set
    outputs,        \* the operator's output tensor, as a one-element sequence
    tiledTensors,   \* std::array<TiledTensor, 3>: the tiles of input 0, input 1 and the output
    loopI,          \* the loop variable i of run()
    computeLog,     \* history: the (input0, input1, output) tile indices of every compute step
    problem,        \* the tensor the optimizer tiles, its minimum tile shape and the maximum tile size
    inputTilingDims, \* the tiling strategy found, "" before
    tileConfig,     \* the tile shape picked for the strategy, <<>> before
    generated,      \* the tiles generated for the tensor, and by which function
    flat,           \* the storage the tiles were flattened into, <<>> before
    conv,           \* the convolution whose tile shapes are searched: inputs' and weights' shapes
    searches,       \* history: the searches run on conv, each with its maximum tile size and result
    enumerated,     \* the last enumeration of pairs of inputs' and weights' tiles on conv
    spad0,          \* ref::spad0: the elements written so far, <<>> when nothing was written yet
    spad1,          \* ref::spad1, likewise
    phaseLog,       \* history: the steps of the scratchpad run(), each with the tile's index
    kargs,          \* the arguments of the call of the convolution kernel, <<>> before the call
    results,        \* the kernel's results array: its vectors in storage order
    kloop,          \* the kernel's loop variables
    act_reg,        \* the kernel's activation registers, one vector for each multiply-accumulate unit
    reads,          \* the vectors of the inputs array read at the last output position
    shapeCase,      \* a tensor shape with a data type, and the storage computed for it
    validated,      \* two inputs handed to the custom operator, and what validate() returned
    ip,             \* the inner product operator: numOutputs, inputs, outputs and its flags
    ops,            \* operators tiled side by side: each one's tensors, tile shape and tiles
    mkl,            \* the session of every device: its ops in order; history: the calls made
    pc              \* where the run is

opVars == <<kSpadSize, inputs, outputs, tiledTensors, loopI, computeLog>>
optVars == <<problem, inputTilingDims, tileConfig, generated, flat>>
searchVars == <<conv, searches, enumerated>>
spadVars == <<spad0, spad1, phaseLog>>
kernelVars == <<kargs, results, kloop, act_reg, reads>>
unitVars == <<kernelVars, shapeCase, validated, ip, ops, mkl>>
vars == <<opVars, optVars, searchVars, spadVars, unitVars, pc>>

(***************************************************************************)
(* Bounds of the model.                                                    *)
(***************************************************************************)
MaxN == 2
MaxC == 3
MaxSpadSize == 13
MaxFill == 1
MaxDimN == 2
MaxDimH == 3
MaxDimW == 1
MaxDimC == 2
MaxTileElems == 12
MaxBatch == 6
MaxRows == 4
MaxOfmaps == 20
MaxTileVectors == 18
MaxSearches == 2
MaxImage == 2
MaxKernel == 2
MaxExtent == 4
MaxLastDim == 9
MaxCalls == 3
MaxOps == 4

\* The devices that have a session, and the buffers handed over as inputs.
Devices == {"cpu0", "cpu1"}
Buffers == {"a", "b"}

(***************************************************************************)
(* Program constants.                                                      *)
(***************************************************************************)
ReferenceAlignment == 0
SmvAlignment == 8
TutorialSpadSize == 32768
TutorialN == 8
TutorialC == 4096
Float32Size == 4
kNumPEs == 8

\* sizeof of the element types a tensor can hold: float16, float/int, double/int64_t
DataTypeSizes == {2, 4, 8}

Min(a, b) == IF a <= b THEN a ELSE b
Max(a, b) == IF a >= b THEN a ELSE b
CeilDiv(a, b) == (a + b - 1) \div b

\* A value of storage that has been allocated and not written yet.
Unwritten == 0 - 1000000

\* The value of an element of which a copy wrote some of the bytes only.
Torn == 0 - 2000000

(***************************************************************************)
(* TensorShape.                                                            *)
(***************************************************************************)
TensorShape(dims, alignment) == [dims |-> dims, alignment |-> alignment]

\* Padding that adds a full alignment to a last dimension already aligned.
calc_padding_past_aligned(n, alignment) ==
    IF alignment = 0 THEN 0 ELSE alignment - (n % alignment)

\* The padding added to a last dimension of n elements.
calc_padding(n, alignment) ==
    IF alignment = 0 \/ n % alignment = 0 THEN 0 ELSE alignment - (n % alignment)

RECURSIVE Product(_)
Product(s) == IF s = <<>> THEN 1 ELSE Head(s) * Product(Tail(s))

\* TensorShape::size(): the number of elements, padding not counted.
size(shape) == Product(shape.dims)

\* TensorShape::storageSize(): the number of elements stored, the last
\* dimension padded up to a multiple of the alignment.
storageSize(shape) ==
    LET n == Len(shape.dims)
        last == shape.dims[n]
    IN  Product(SubSeq(shape.dims, 1, n - 1)) * (last + calc_padding(last, shape.alignment))

\* The bytes a tensor of this shape occupies.
storageBytes(shape, dataTypeSize) == storageSize(shape) * dataTypeSize

(***************************************************************************)
(* Test data.                                                              *)
(***************************************************************************)
\* fillTensorWithSequentialFloat32Data: data[i] = i over the storage; the
\* model also starts the sequence at other values, so that the two inputs differ.
fillTensorWithSequentialFloat32Data(n, first) == [k \in 1..n |-> first + (k - 1)]

\* new Tensor(name, shape) with allocated storage.
Tensor(shape, dataTypeSize, data) ==
    [shape |-> shape, dataTypeSize |-> dataTypeSize, data |-> data]

(***************************************************************************)
(* Tile generation for element-wise operators.                             *)
(***************************************************************************)
\* One tile: the offset of its first element in the parent's storage, its
\* shape and its data.
Tile(origin, shape, data) == [origin |-> origin, shape |-> shape, data |-> data]

\* generateTiledTensorPerBatchNC: the storage is cut into consecutive pieces
\* of tileShape.storageSize() elements, the last piece holding what remains;
\* each tile is a {1, n} tensor with the tile shape's alignment.
generateTiledTensorPerBatchNC(tensor, tileShape, copyData) ==
    LET inputSize == storageSize(tensor.shape)
        tileSize == storageSize(tileShape)
        numTiles == CeilDiv(inputSize, tileSize)
    IN  [t \in 1..numTiles |->
            LET srcOffset == (t - 1) * tileSize
                currentTileSize == Min(inputSize - srcOffset, tileSize)
                currentShape == TensorShape(<<1, currentTileSize>>, tileShape.alignment)
            IN  Tile(srcOffset, currentShape,
                     [k \in 1..storageSize(currentShape) |->
                         IF copyData /\ k <= currentTileSize
                         THEN tensor.data[srcOffset + k]
                         ELSE Unwritten])]

\* The tiles that cover element x of the parent's storage.
CoveringTiles(tiles, x) ==
    {t \in 1..Len(tiles) :
        tiles[t].origin <= x /\ x < tiles[t].origin + size(tiles[t].shape)}

RECURSIVE SumOver(_, _)
SumOver(f, S) ==
    IF S = {} THEN 0
    ELSE LET t == CHOOSE t \in S : TRUE IN f[t] + SumOver(f, S \ {t})

\* flattenTiledTensor: every tile's elements go back to the tile's place in
\* the destination; an element no tile covers keeps the destination's value.
flattenTiledTensor(tiles, dest) ==
    [k \in 1..Len(dest) |->
        LET cover == CoveringTiles(tiles, k - 1)
        IN  IF cover = {} THEN dest[k]
            ELSE SumOver([t \in cover |-> tiles[t].data[k - tiles[t].origin]], cover)]

(***************************************************************************)
(* MyCustomOperator.                                                       *)
(***************************************************************************)
\* enum {kInput0, kInput1, kNumInputs}; enum {kOutput, kNumOutputs};
kInput0 == 0
kInput1 == 1
kOutput == 0

\* Element i of a C++ vector or array, which counts from 0.
at(v, i) == v[i + 1]

\* tile() with the scratchpad's bytes taken for a number of elements.
maxTileSizeInBytes(spadSize, tensor) ==
    Min(spadSize, storageSize(tensor.shape))

\* tile() with tiles of no more than one batch.
maxTileSizeOfBatch(spadSize, tensor) ==
    Min(spadSize \div tensor.dataTypeSize,
        tensor.shape.dims[2] + calc_padding(tensor.shape.dims[2], tensor.shape.alignment))

\* The tile size tile() picks: as many elements as a scratchpad holds, and
\* no more than the tensor has.
maxTileSize(spadSize, tensor) ==
    Min(spadSize \div tensor.dataTypeSize, storageSize(tensor.shape))

\* MyCustomOperator::tile(): tiledTensors[0], tiledTensors[1], tiledTensors[2].
tile(spadSize, ins, outs) ==
    LET inputs0 == at(ins, kInput0)
        inputs1 == at(ins, kInput1)
        outputs0 == at(outs, kOutput)
        tileShape == TensorShape(<<1, maxTileSize(spadSize, inputs0)>>, ReferenceAlignment)
    IN  << generateTiledTensorPerBatchNC(inputs0, tileShape, TRUE),
           generateTiledTensorPerBatchNC(inputs1, tileShape, TRUE),
           generateTiledTensorPerBatchNC(outputs0, tileShape, FALSE) >>

\* TiledTensor::getTileWithData(i).
getTileWithData(tiled, i) == tiled[i + 1]

\* elementwise_add with a loop that stops one element early.
elementwise_add_short(input0, input1, output, n) ==
    [k \in 1..Len(output) |-> IF k < n THEN input0[k] + input1[k] ELSE output[k]]

\* elementwise_add(input0, input1, output, size): output[i] = input0[i] + input1[i].
elementwise_add(input0, input1, output, n) ==
    [k \in 1..Len(output) |-> IF k <= n THEN input0[k] + input1[k] ELSE output[k]]

\* run() with the second input's tile never advanced.
TilesOfIterationInput1Stuck(i) == [in0 |-> i, in1 |-> 0, out |-> i]

\* The tiles of the three collections that iteration i of run() hands to the kernel.
TilesOfIteration(i) == [in0 |-> i, in1 |-> i, out |-> i]

(***************************************************************************)
(* The test case: initGlobals, create and fill the tensors, tile(), run(). *)
(***************************************************************************)
\* The scratchpad sizes tried: every size that holds at least one element of
\* any type, and the tutorial's 32 KB.
SpadSizes == {s \in 1..MaxSpadSize : \A d \in DataTypeSizes : s >= d} \cup {TutorialSpadSize}

SmallShapes ==
    {TensorShape(<<n, c>>, a) : n \in 1..MaxN, c \in 1..MaxC,
                               a \in {ReferenceAlignment, SmvAlignment}}

TutorialShape == TensorShape(<<TutorialN, TutorialC>>, ReferenceAlignment)

Init ==
    /\ kSpadSize = 0
    /\ inputs = <<>>
    /\ outputs = <<>>
    /\ tiledTensors = <<>>
    /\ loopI = 0
    /\ computeLog = <<>>
    /\ problem = <<>>
    /\ inputTilingDims = ""
    /\ tileConfig = <<>>
    /\ generated = [by |-> "", copyData |-> FALSE, tiles |-> <<>>]
    /\ flat = <<>>
    /\ conv = <<>>
    /\ searches = <<>>
    /\ enumerated = [done |-> FALSE]
    /\ spad0 = <<>>
    /\ spad1 = <<>>
    /\ phaseLog = <<>>
    /\ kargs = <<>>
    /\ results = <<>>
    /\ kloop = <<>>
    /\ act_reg = <<>>
    /\ reads = {}
    /\ shapeCase = [done |-> FALSE]
    /\ validated = [done |-> FALSE]
    /\ ip = <<>>
    /\ ops = <<>>
    /\ mkl = [session |-> [device \in Devices |-> <<>>], calls |-> <<>>]
    /\ pc = "start"

\* ReferenceBackend::initGlobals().
initGlobals ==
    /\ pc = "start"
    /\ \E s \in SpadSizes : kSpadSize' = s
    /\ pc' = "globals"
    /\ UNCHANGED <<inputs, outputs, tiledTensors, loopI, computeLog>>
    /\ UNCHANGED <<optVars, searchVars, spadVars>>
    /\ UNCHANGED unitVars

\* The test's tensors: two inputs of one shape, filled, and the output that
\* createAndFillTensorsWithData allocates.
createAndFillTensorsWithData ==
    /\ pc = "globals"
    /\ \E shape \in SmallShapes \cup {TutorialShape}, d \in DataTypeSizes, f \in 0..MaxFill :
        /\ shape = TutorialShape => (kSpadSize = TutorialSpadSize /\ d = Float32Size /\ f = 0)
        /\ LET n == storageSize(shape)
           IN  /\ inputs' = << Tensor(shape, d, fillTensorWithSequentialFloat32Data(n, 0)),
                               Tensor(shape, d, fillTensorWithSequentialFloat32Data(n, f)) >>
               /\ outputs' = << Tensor(shape, d, [k \in 1..n |-> Unwritten]) >>
    /\ pc' = "created"
    /\ UNCHANGED <<kSpadSize, tiledTensors, loopI, computeLog>>
    /\ UNCHANGED <<optVars, searchVars, spadVars>>
    /\ UNCHANGED unitVars

\* op->tile().
opTile ==
    /\ pc = "created"
    /\ tiledTensors' = tile(kSpadSize, inputs, outputs)
    /\ pc' = "tiled"
    /\ UNCHANGED <<kSpadSize, inputs, outputs, loopI, computeLog>>
    /\ UNCHANGED <<optVars, searchVars, spadVars>>
    /\ UNCHANGED unitVars

\* op->run(): entering the loop.
runEnter ==
    /\ pc = "tiled"
    /\ loopI' = 0
    /\ pc' = "loop"
    /\ UNCHANGED <<kSpadSize, inputs, outputs, tiledTensors, computeLog>>
    /\ UNCHANGED <<optVars, searchVars, spadVars>>
    /\ UNCHANGED unitVars

\* One iteration of the loop of run(): input0, input1 and output are
\* tiledTensors[kInput0], tiledTensors[kInput1] and tiledTensors[kOutput]; the
\* kernel writes the tile of output.
runIteration ==
    /\ pc = "loop"
    /\ loopI < Len(at(tiledTensors, kInput0))
    /\ LET idx == TilesOfIteration(loopI)
           input0Tile == getTileWithData(at(tiledTensors, kInput0), idx.in0)
           input1Tile == getTileWithData(at(tiledTensors, kInput1), idx.in1)
           outputTile == getTileWithData(at(tiledTensors, kOutput), idx.out)
           result == elementwise_add(input0Tile.data, input1Tile.data,
                                     outputTile.data, size(outputTile.shape))
       IN  /\ tiledTensors' = [tiledTensors EXCEPT ![kOutput + 1][idx.out + 1].data = result]
           /\ computeLog' = Append(computeLog, idx)
    /\ loopI' = loopI + 1
    /\ UNCHANGED <<kSpadSize, inputs, outputs, pc>>
    /\ UNCHANGED <<optVars, searchVars, spadVars>>
    /\ UNCHANGED unitVars

\* The end of run(): flattenTiledTensor(tiledTensors[kOutput], outputs).
runFlatten ==
    /\ pc = "loop"
    /\ loopI >= Len(at(tiledTensors, kInput0))
    /\ outputs' = [outputs EXCEPT ![kOutput + 1].data =
                        flattenTiledTensor(at(tiledTensors, kOutput),
                                           at(outputs, kOutput).data)]
    /\ pc' = "done"
    /\ UNCHANGED <<kSpadSize, inputs, tiledTensors, loopI, computeLog>>
    /\ UNCHANGED <<optVars, searchVars, spadVars>>
    /\ UNCHANGED unitVars

(***************************************************************************)
(* run() with the kernel working in the scratchpads: invokeKernel calls    *)
(* elementwise_add(host_input0, host_input1, host_output, spad0, spad1,    *)
(* size), which loads, adds and stores.                                    *)
(***************************************************************************)
\* The junk an element of a scratchpad holds that was never written.
JunkValues == 0..MaxFill

\* Element k of a scratchpad.
spadAt(spad, k, junk) == IF k <= Len(spad) THEN spad[k] ELSE junk

\* dmaLoad(dst, src, size), a memcpy of size bytes: the floats wholly within
\* the first size bytes are copied; a float of which only some bytes are
\* copied is torn; dst keeps the rest.
dmaLoad(dst, src, nbytes) ==
    LET whole == nbytes \div Float32Size
        torn == IF nbytes % Float32Size = 0 THEN 0 ELSE 1
    IN  [k \in 1..Max(Len(dst), whole + torn) |->
            IF k <= whole THEN src[k]
            ELSE IF k = whole + torn THEN Torn
            ELSE dst[k]]

\* dmaStore(dst, src, size): as dmaLoad, from the scratchpad to the host.
dmaStore(dst, src, nbytes) ==
    LET whole == nbytes \div Float32Size
        torn == IF nbytes % Float32Size = 0 THEN 0 ELSE 1
    IN  [k \in 1..Max(Len(dst), whole + torn) |->
            IF k <= whole THEN src[k]
            ELSE IF k = whole + torn THEN Torn
            ELSE dst[k]]

\* The loop of the kernel: spad1[i] += spad0[i] for i < size.
spadAccumulate(s0, s1, n, junk) ==
    [k \in 1..Max(Len(s1), n) |->
        IF k <= n THEN spadAt(s1, k, junk) + spadAt(s0, k, junk) ELSE s1[k]]

\* The kernel adding before it has loaded.
KernelStepsAddFirst == <<"accumulate", "dmaLoad0", "dmaLoad1", "dmaStore">>

\* The steps of one call of the kernel, in the order of the code.
KernelSteps == <<"dmaLoad0", "dmaLoad1", "accumulate", "dmaStore">>

\* The step that follows a step of the kernel, "return" after the last.
stepAfter(step) ==
    IF \E k \in 1..(Len(KernelSteps) - 1) : KernelSteps[k] = step
    THEN KernelSteps[(CHOOSE k \in 1..(Len(KernelSteps) - 1) : KernelSteps[k] = step) + 1]
    ELSE "return"

\* The size argument of the kernel: outputTile.getShape().size().
kernelSize == size(getTileWithData(at(tiledTensors, kOutput), loopI).shape)

\* op->run() of the scratchpad version: entering the loop.
spadRunEnter ==
    /\ pc = "tiled"
    /\ at(inputs, kInput0).dataTypeSize = Float32Size
    /\ loopI' = 0
    /\ pc' = "spadLoop"
    /\ UNCHANGED <<kSpadSize, inputs, outputs, tiledTensors, computeLog>>
    /\ UNCHANGED <<optVars, searchVars, spadVars>>
    /\ UNCHANGED unitVars

\* invokeKernel(ref::kMyCustomOperatorHw, elementwise_add, ...) on the tiles
\* of iteration i.
invokeKernel ==
    /\ pc = "spadLoop"
    /\ loopI < Len(at(tiledTensors, kInput0))
    /\ computeLog' = Append(computeLog, TilesOfIteration(loopI))
    /\ pc' = KernelSteps[1]
    /\ UNCHANGED <<kSpadSize, inputs, outputs, tiledTensors, loopI>>
    /\ UNCHANGED <<optVars, searchVars, spadVars>>
    /\ UNCHANGED unitVars

\* dmaLoad(spad0, host_input0, size).
kernelLoad0 ==
    /\ pc = "dmaLoad0"
    /\ spad0' = dmaLoad(spad0, getTileWithData(at(tiledTensors, kInput0), loopI).data,
                        kernelSize)
    /\ phaseLog' = Append(phaseLog, [step |-> pc, tile |-> loopI])
    /\ pc' = stepAfter(pc)
    /\ UNCHANGED <<opVars, optVars, searchVars, spad1>>
    /\ UNCHANGED unitVars

\* dmaLoad(spad1, host_input1, size).
kernelLoad1 ==
    /\ pc = "dmaLoad1"
    /\ spad1' = dmaLoad(spad1, getTileWithData(at(tiledTensors, kInput1), loopI).data,
                        kernelSize)
    /\ phaseLog' = Append(phaseLog, [step |-> pc, tile |-> loopI])
    /\ pc' = stepAfter(pc)
    /\ UNCHANGED <<opVars, optVars, searchVars, spad0>>
    /\ UNCHANGED unitVars

\* The loop of the kernel; what it reads of a scratchpad that was never
\* written is junk.
kernelAccumulate ==
    /\ pc = "accumulate"
    /\ \E junk \in JunkValues : spad1' = spadAccumulate(spad0, spad1, kernelSize, junk)
    /\ phaseLog' = Append(phaseLog, [step |-> pc, tile |-> loopI])
    /\ pc' = stepAfter(pc)
    /\ UNCHANGED <<opVars, optVars, searchVars, spad0>>
    /\ UNCHANGED unitVars

\* dmaStore(host_output, spad1, size), the return of the kernel and i++.
kernelStore ==
    /\ pc = "dmaStore"
    /\ tiledTensors' = [tiledTensors EXCEPT ![kOutput + 1][loopI + 1].data =
                            dmaStore(@, spad1, kernelSize)]
    /\ phaseLog' = Append(phaseLog, [step |-> pc, tile |-> loopI])
    /\ loopI' = loopI + 1
    /\ pc' = "spadLoop"
    /\ UNCHANGED <<kSpadSize, inputs, outputs, computeLog>>
    /\ UNCHANGED <<optVars, searchVars, spad0, spad1>>
    /\ UNCHANGED unitVars

\* The end of run(): flattenTiledTensor(tiledTensors[kOutput], outputs).
spadRunFlatten ==
    /\ pc = "spadLoop"
    /\ loopI >= Len(at(tiledTensors, kInput0))
    /\ outputs' = [outputs EXCEPT ![kOutput + 1].data =
                        flattenTiledTensor(at(tiledTensors, kOutput),
                                           at(outputs, kOutput).data)]
    /\ phaseLog' = Append(phaseLog, [step |-> "flatten", tile |-> loopI])
    /\ pc' = "spadDone"
    /\ UNCHANGED <<kSpadSize, inputs, tiledTensors, loopI, computeLog>>
    /\ UNCHANGED <<optVars, searchVars, spad0, spad1>>
    /\ UNCHANGED unitVars

(***************************************************************************)
(* The tiling optimizer of a sliding-window operator (unnamed/part_000):   *)
(* tiling strategy, tile shape, tile generation, flattening.  Tensors are  *)
(* NHWC; a dimension is named by its position, 1..4.                       *)
(***************************************************************************)
DimsN == 1
DimsH == 2
DimsW == 3
DimsC == 4

\* smv::TilingDims in the order of preference, and the dimensions each one tiles.
PreferenceOrder == <<"None", "DimN", "DimNC", "DimNH", "DimNCH">>

TiledDimsOf(tilingDims) ==
    CASE tilingDims = "None" -> {}
      [] tilingDims = "DimN" -> {DimsN}
      [] tilingDims = "DimNC" -> {DimsN, DimsC}
      [] tilingDims = "DimNH" -> {DimsN, DimsH}
      [] tilingDims = "DimNCH" -> {DimsN, DimsC, DimsH}
      [] OTHER -> {}

\* The smallest tile of a strategy: the minimum tile shape along the
\* dimensions it tiles, the whole tensor along the others.
SmallestTile(tilingDims, shape, minShape) ==
    TensorShape([d \in 1..Len(shape.dims) |->
                    IF d \in TiledDimsOf(tilingDims) THEN minShape[d] ELSE shape.dims[d]],
                shape.alignment)

\* Whether a strategy can make a tile fit.
StrategyFits(tilingDims, shape, maxTileElems, minShape) ==
    storageSize(SmallestTile(tilingDims, shape, minShape)) <= maxTileElems

RECURSIVE FirstFitting(_, _, _, _)
FirstFitting(order, shape, maxTileElems, minShape) ==
    IF order = <<>> THEN "Invalid"
    ELSE IF StrategyFits(Head(order), shape, maxTileElems, minShape) THEN Head(order)
    ELSE FirstFitting(Tail(order), shape, maxTileElems, minShape)

\* The search without its first entry, no tiling.
findTilingDimsAfterNone(shape, maxTileElems, minShape) ==
    FirstFitting(Tail(PreferenceOrder), shape, maxTileElems, minShape)

\* The search ending in the last strategy when none fits.
findTilingDimsOrLast(shape, maxTileElems, minShape) ==
    LET found == FirstFitting(PreferenceOrder, shape, maxTileElems, minShape)
    IN  IF found = "Invalid" THEN PreferenceOrder[Len(PreferenceOrder)] ELSE found

\* TilingOptimizerBase::findBestTilingDims.
findBestTilingDims(shape, maxTileElems, minShape) ==
    FirstFitting(PreferenceOrder, shape, maxTileElems, minShape)

\* The enumeration started at one element instead of the smallest tile.
enumTilingConfigsFromOne(shape, maxTileElems, smallest) ==
    {t \in {TensorShape(<<n, h, w, c>>, shape.alignment) :
                n \in Min(1, smallest.dims[DimsN])..shape.dims[DimsN],
                h \in Min(1, smallest.dims[DimsH])..shape.dims[DimsH],
                w \in Min(1, smallest.dims[DimsW])..shape.dims[DimsW],
                c \in Min(1, smallest.dims[DimsC])..shape.dims[DimsC]} :
        storageSize(t) <= maxTileElems}

\* enum4DTensorTilingConfigs: every tile shape between the strategy's smallest
\* tile and the whole tensor that does not exceed the maximum tile size.
enum4DTensorTilingConfigs(shape, maxTileElems, smallest) ==
    {t \in {TensorShape(<<n, h, w, c>>, shape.alignment) :
                n \in smallest.dims[DimsN]..shape.dims[DimsN],
                h \in smallest.dims[DimsH]..shape.dims[DimsH],
                w \in smallest.dims[DimsW]..shape.dims[DimsW],
                c \in smallest.dims[DimsC]..shape.dims[DimsC]} :
        storageSize(t) <= maxTileElems}

(***************************************************************************)
(* Tile generation for tensors of any rank.                                *)
(***************************************************************************)
\* The coordinates of a tensor of the given dimensions.
RECURSIVE Coords(_)
Coords(dims) ==
    IF dims = <<>> THEN {<<>>}
    ELSE {<<i>> \o rest : i \in 0..(Head(dims) - 1), rest \in Coords(Tail(dims))}

\* The position in the storage of the element at coordinate x: row major,
\* the last dimension padded.
RECURSIVE StorageIndexFrom(_, _, _, _)
StorageIndexFrom(x, padded, d, acc) ==
    IF d > Len(padded) THEN acc
    ELSE StorageIndexFrom(x, padded, d + 1, acc * padded[d] + x[d])

StorageIndex(x, shape) ==
    LET n == Len(shape.dims)
        padded == [d \in 1..n |->
                      IF d = n THEN shape.dims[d] + calc_padding(shape.dims[d], shape.alignment)
                      ELSE shape.dims[d]]
    IN  StorageIndexFrom(x, padded, 1, 0)

\* The pieces one dimension is cut into, each <<start, length>>: pieces of
\* tileDim elements, the last one holding what remains; with a halo, every
\* piece but the first starts halo elements before the end of the previous one.
RECURSIVE TilesInDim(_, _, _, _)
TilesInDim(start, remaining, tileDim, halo) ==
    IF remaining <= 0 THEN <<>>
    ELSE LET len == Min(tileDim, remaining)
             rest == remaining - len
         IN  IF rest > 0
             THEN <<(<<start, len>>)>> \o TilesInDim(start + len - halo, rest + halo, tileDim, halo)
             ELSE <<(<<start, len>>)>>

\* The t-th (0-based) combination of pieces, the last dimension varying fastest.
RECURSIVE TileIndexFrom(_, _, _)
TileIndexFrom(t, counts, d) ==
    IF d = 0 THEN <<>>
    ELSE Append(TileIndexFrom(t \div counts[d], counts, d - 1), t % counts[d])

\* Tile generation that copies into every tile the data at the tensor's
\* origin instead of the data at the tile's origin.
GenerateTilesCopyingFromOrigin(tensor, tileShape, halos, copyData) ==
    LET n == Len(tensor.shape.dims)
        pieces == [d \in 1..n |-> TilesInDim(0, tensor.shape.dims[d], tileShape.dims[d], halos[d])]
        counts == [d \in 1..n |-> Len(pieces[d])]
    IN  [t \in 1..Product(counts) |->
            LET idx == TileIndexFrom(t - 1, counts, n)
                origin == [d \in 1..n |-> pieces[d][idx[d] + 1][1]]
                dims == [d \in 1..n |-> pieces[d][idx[d] + 1][2]]
            IN  Tile(origin, TensorShape(dims, tileShape.alignment),
                     [x \in Coords(dims) |->
                         IF copyData THEN tensor.data[StorageIndex(x, tensor.shape) + 1]
                         ELSE Unwritten])]

\* The tiles of a tensor cut along every dimension: in row-major order of the
\* pieces, each with its origin in the tensor, its shape and its data.
GenerateTiles(tensor, tileShape, halos, copyData) ==
    LET n == Len(tensor.shape.dims)
        pieces == [d \in 1..n |-> TilesInDim(0, tensor.shape.dims[d], tileShape.dims[d], halos[d])]
        counts == [d \in 1..n |-> Len(pieces[d])]
    IN  [t \in 1..Product(counts) |->
            LET idx == TileIndexFrom(t - 1, counts, n)
                origin == [d \in 1..n |-> pieces[d][idx[d] + 1][1]]
                dims == [d \in 1..n |-> pieces[d][idx[d] + 1][2]]
            IN  Tile(origin, TensorShape(dims, tileShape.alignment),
                     [x \in Coords(dims) |->
                         IF copyData
                         THEN tensor.data[StorageIndex([d \in 1..n |-> origin[d] + x[d]],
                                                       tensor.shape) + 1]
                         ELSE Unwritten])]

\* Tile generation that leaves out the tiles smaller than the tile shape.
generateWholeTilesOnly(tensor, tileShape, copyData) ==
    SelectSeq(GenerateTiles(tensor, tileShape, [d \in 1..Len(tileShape.dims) |-> 0], copyData),
              LAMBDA tl : tl.shape.dims = tileShape.dims)

\* generateTiledTensor: non-overlapping tiles of the tile shape.
generateTiledTensor(tensor, tileShape, copyData) ==
    GenerateTiles(tensor, tileShape, [d \in 1..Len(tileShape.dims) |-> 0], copyData)

\* generateTiledTensorWithStrideAndPadding: consecutive tiles share
\* field - stride rows and columns.
generateTiledTensorWithStrideAndPadding(tensor, tileShape, field, strides, copyData) ==
    GenerateTiles(tensor, tileShape,
                  [d \in 1..Len(tileShape.dims) |->
                      IF d = DimsH THEN field[1] - strides[1]
                      ELSE IF d = DimsW THEN field[2] - strides[2]
                      ELSE 0],
                  copyData)

\* Whether a tile holds the element at coordinate x of its parent.
InTile(tl, x) ==
    \A d \in 1..Len(x) : tl.origin[d] <= x[d] /\ x[d] < tl.origin[d] + tl.shape.dims[d]

CoveringTilesAt(tiles, x) == {t \in 1..Len(tiles) : InTile(tiles[t], x)}

\* The coordinate stored at position k (0-based) of the storage; in a
\* padding position the last entry is not below the last dimension.
RECURSIVE CoordAtFrom(_, _, _)
CoordAtFrom(k, padded, d) ==
    IF d = 0 THEN <<>>
    ELSE Append(CoordAtFrom(k \div padded[d], padded, d - 1), k % padded[d])

CoordAt(k, shape) ==
    LET n == Len(shape.dims)
        padded == [d \in 1..n |->
                      IF d = n THEN shape.dims[d] + calc_padding(shape.dims[d], shape.alignment)
                      ELSE shape.dims[d]]
    IN  CoordAtFrom(k, padded, n)

\* Flattening that puts every tile at the origin of the destination.
flattenTilesAtOrigin(tiles, shape, dest) ==
    [k \in 1..Len(dest) |->
        LET x == CoordAt(k - 1, shape)
            cover == {t \in 1..Len(tiles) :
                         \A d \in 1..Len(x) : x[d] < tiles[t].shape.dims[d]}
        IN  IF cover = {} THEN dest[k]
            ELSE tiles[CHOOSE t \in cover : \A u \in cover : u <= t].data[x]]

\* Flattening in which a later tile overwrites what an earlier one put.
flattenTilesOverwriting(tiles, shape, dest) ==
    [k \in 1..Len(dest) |->
        LET x == CoordAt(k - 1, shape)
            cover == CoveringTilesAt(tiles, x)
            last == CHOOSE t \in cover : \A u \in cover : u <= t
        IN  IF cover = {} THEN dest[k]
            ELSE tiles[last].data[[d \in 1..Len(x) |-> x[d] - tiles[last].origin[d]]]]

\* flattenTiledTensor for tiles of any rank: every tile's elements go back to
\* the tile's origin; what several tiles hold is added up; padding and
\* elements no tile holds keep the destination's value.
flattenTiles(tiles, shape, dest) ==
    [k \in 1..Len(dest) |->
        LET x == CoordAt(k - 1, shape)
            cover == CoveringTilesAt(tiles, x)
        IN  IF cover = {} THEN dest[k]
            ELSE SumOver([t \in cover |->
                             tiles[t].data[[d \in 1..Len(x) |-> x[d] - tiles[t].origin[d]]]],
                         cover)]

(***************************************************************************)
(* Operators of a graph tiled and run side by side: every operator is a    *)
(* MyCustomOperator with tensors of its own; the steps of tile() and run() *)
(* of different operators interleave.                                      *)
(***************************************************************************)
Operators == {1, 2}

OperatorShapes == {TensorShape(<<n, c>>, ReferenceAlignment) : n \in 1..MaxN, c \in 1..MaxC}

\* Every step of every operator works on the members of the first operator.
firstOperator(k) == 1

\* this: the operator whose members a step of operator k reads and writes.
thisOp(k) == k

\* The loop of run() as a whole: every tile of tiledTensors[kOutput] is
\* written with the sum of the tiles of the inputs.
runTiles(tiled) ==
    [tiled EXCEPT ![kOutput + 1] =
        [t \in 1..Len(at(tiled, kOutput)) |->
            LET input0Tile == getTileWithData(at(tiled, kInput0), t - 1)
                input1Tile == getTileWithData(at(tiled, kInput1), t - 1)
                outputTile == getTileWithData(at(tiled, kOutput), t - 1)
            IN  [outputTile EXCEPT !.data =
                    elementwise_add(input0Tile.data, input1Tile.data,
                                    outputTile.data, size(outputTile.shape))]]]

\* The operators of the graph are built, each with two filled inputs and an
\* output of the inputs' shape.
createOperators ==
    /\ pc = "globals"
    /\ \E shapes \in [Operators -> OperatorShapes] :
        ops' = [k \in Operators |->
                   LET n == storageSize(shapes[k])
                   IN  [inputs |-> << Tensor(shapes[k], Float32Size,
                                             fillTensorWithSequentialFloat32Data(n, k)),
                                      Tensor(shapes[k], Float32Size,
                                             fillTensorWithSequentialFloat32Data(n, 10 * k)) >>,
                        outputs |-> << Tensor(shapes[k], Float32Size,
                                              [e \in 1..n |-> Unwritten]) >>,
                        maxTileSize |-> 0,
                        tiledTensors |-> <<>>,
                        at |-> "created"]]
    /\ pc' = "operators"
    /\ UNCHANGED <<opVars, optVars, searchVars, spadVars, mkl, kernelVars, shapeCase, validated, ip>>

\* tile() of operator k, its first statement: maxTileSize from SpadSize().
opMaxTileSize(k) ==
    /\ pc = "operators"
    /\ ops[k].at = "created"
    /\ ops' = [ops EXCEPT ![k].at = "sized",
                          ![thisOp(k)].maxTileSize =
                              maxTileSize(kSpadSize, at(ops[thisOp(k)].inputs, kInput0))]
    /\ UNCHANGED <<opVars, optVars, searchVars, spadVars, mkl, kernelVars, shapeCase, validated, ip, pc>>

\* tile() of operator k, the next of its three generateTiledTensorPerBatchNC
\* calls: tiledTensors[0], tiledTensors[1] with data, tiledTensors[2] without.
opGenerateTiledTensor(k) ==
    /\ pc = "operators"
    /\ ops[k].at = "sized"
    /\ LET this == ops[thisOp(k)]
           made == Len(this.tiledTensors)
           tileShape == TensorShape(<<1, this.maxTileSize>>, ReferenceAlignment)
           tensor == IF made < 2 THEN this.inputs[made + 1] ELSE at(this.outputs, kOutput)
       IN  /\ made < 3
           /\ ops' = [ops EXCEPT ![k].at = IF made = 2 THEN "tiled" ELSE "sized",
                                 ![thisOp(k)].tiledTensors =
                                     Append(this.tiledTensors,
                                            generateTiledTensorPerBatchNC(tensor, tileShape,
                                                                          made < 2))]
    /\ UNCHANGED <<opVars, optVars, searchVars, spadVars, mkl, kernelVars, shapeCase, validated, ip, pc>>

\* run() of operator k: the loop over the tiles, and
\* flattenTiledTensor(tiledTensors[kOutput], outputs).
opRun(k) ==
    /\ pc = "operators"
    /\ ops[k].at = "tiled"
    /\ Len(ops[thisOp(k)].tiledTensors) = 3
    /\ LET this == ops[thisOp(k)]
           written == runTiles(this.tiledTensors)
       IN  ops' = [ops EXCEPT ![k].at = "done",
                              ![thisOp(k)].tiledTensors = written,
                              ![thisOp(k)].outputs =
                                  [this.outputs EXCEPT ![kOutput + 1].data =
                                      flattenTiledTensor(at(written, kOutput),
                                                         at(this.outputs, kOutput).data)]]
    /\ UNCHANGED <<opVars, optVars, searchVars, spadVars, mkl, kernelVars, shapeCase, validated, ip, pc>>

(***************************************************************************)
(* InnerProductOp<Backend> (operators/inner_product_op.h) and its test on  *)
(* the reference backend. A tensor is its shape, its layout and its data   *)
(* in storage order; None is a null pointer.                               *)
(***************************************************************************)
None == [null |-> TRUE]

\* enum { Inputs, Weights, kNumInputs }; enum { Outputs, kNumOutputs };
Inputs == 0
Weights == 1
Outputs == 0

\* Backend::Alignment and Backend::TransposeFCWeights.
Backends ==
    [Reference |-> [Alignment |-> ReferenceAlignment, TransposeFCWeights |-> FALSE],
     Smv |-> [Alignment |-> SmvAlignment, TransposeFCWeights |-> TRUE]]

\* The test's input of shape {1, 10} and its 10 outputs.
TestChannels == 10
TestNumOutputs == 10

\* inferOutputShape(): { shape[0], numOutputs }, NC, Backend::Alignment.
inferOutputShape(op) ==
    LET shape == at(op.inputs, Inputs).shape
    IN  [shape |-> TensorShape(<<shape.dims[1], op.numOutputs>>, Backends[op.backend].Alignment),
         layout |-> "NC"]

\* The weights' shape with the two dimensions never swapped.
inferWeightsShapeUntransposed(op) ==
    LET shape == at(op.inputs, Inputs).shape
    IN  [shape |-> TensorShape(<<shape.dims[2], op.numOutputs>>,
                                Backends[op.backend].Alignment),
         layout |-> "CN"]

\* inferWeightsShape(): { numOutputs, shape[1] } NC with TransposeFCWeights,
\* { shape[1], numOutputs } CN without.
inferWeightsShape(op) ==
    LET shape == at(op.inputs, Inputs).shape
    IN  IF Backends[op.backend].TransposeFCWeights
        THEN [shape |-> TensorShape(<<op.numOutputs, shape.dims[2]>>,
                                    Backends[op.backend].Alignment),
              layout |-> "NC"]
        ELSE [shape |-> TensorShape(<<shape.dims[2], op.numOutputs>>,
                                    Backends[op.backend].Alignment),
              layout |-> "CN"]

\* validate(): numOutputs > 0 && Operator::validate(); base is what the
\* base class returns.
InnerProductOp_validate(op, base) == op.numOutputs > 0 /\ base

\* new Tensor(name, shape): no storage yet.
newTensor(name, shaped) ==
    [name |-> name, shape |-> shaped.shape, layout |-> shaped.layout, data |-> <<>>]

\* tensor->allocateStorage<float>(): nothing written yet.
allocateStorage(tensor) ==
    [tensor EXCEPT !.data = [e \in 1..storageSize(tensor.shape) |-> Unwritten]]

\* createWeightsTensors() without the check of inputs.at(Weights).
createWeightsTensorsAgain(op) ==
    LET weights == newTensor("weights", inferWeightsShape(op))
    IN  [op EXCEPT !.workspace = Append(@, weights.name),
                   !.inputs[Weights + 1] = weights,
                   !.weightsTensorsCreated = TRUE]

\* createWeightsTensors().
createWeightsTensors(op) ==
    IF at(op.inputs, Weights) # None THEN op
    ELSE LET weights == newTensor("weights", inferWeightsShape(op))
         IN  [op EXCEPT !.workspace = Append(@, weights.name),
                        !.inputs[Weights + 1] = weights,
                        !.weightsTensorsCreated = TRUE]

\* createOutputTensors(): outputTensorsCreated is left as it is.
createOutputTensors(op) ==
    IF at(op.outputs, Outputs) # None THEN op
    ELSE LET output == newTensor("output", inferOutputShape(op))
         IN  [op EXCEPT !.workspace = Append(@, output.name),
                        !.outputs[Outputs + 1] = output]

\* History: a call is counted, and the tensors it added to the workspace are
\* remembered as allocated by the operator.
called(before, after, call) ==
    [after EXCEPT !.calls = @ + 1,
                  !.last = call,
                  !.made = @ \o SubSeq(after.workspace, Len(before.workspace) + 1,
                                       Len(after.workspace))]

\* The weights filled by the test: every row the numbers from 1 on
\* ("constant weights per neuron"), or row c the numbers from c + 1 on
\* ("distinct weights per neuron").
testWeights(section, rows, cols) ==
    [e \in 1..(rows * cols) |->
        LET row == (e - 1) \div cols
            col == (e - 1) % cols
        IN  IF section = "constant" THEN col + 1 ELSE row + col + 1]

\* The inner product with the weights read as [K][C].
refInnerProductTransposed(input, weights, output) ==
    LET N == input.shape.dims[1]
        C == input.shape.dims[2]
        K == output.shape.dims[2]
    IN  [e \in 1..Len(output.data) |->
            LET n == (e - 1) \div K
                k == (e - 1) % K
            IN  SumOver([c \in 0..(C - 1) |->
                            input.data[n * C + c + 1] * weights.data[k * C + c + 1]],
                        0..(C - 1))]

\* run() of the reference backend: output[n][k] is the sum over c of
\* input[n][c] * weights[c][k], all three in storage order without padding.
refInnerProduct(input, weights, output) ==
    LET N == input.shape.dims[1]
        C == input.shape.dims[2]
        K == output.shape.dims[2]
    IN  [e \in 1..Len(output.data) |->
            LET n == (e - 1) \div K
                k == (e - 1) % K
            IN  SumOver([c \in 0..(C - 1) |->
                            input.data[n * C + c + 1] * weights.data[c * K + k + 1]],
                        0..(C - 1))]

\* The inputs the operator is tried on: small ones and the test's {1, 10}.
InnerProductInputs ==
    {<<n, c>> : n \in 1..MaxN, c \in 1..MaxC} \cup {<<1, TestChannels>>}

\* The values setNumOutputs() is tried with: none, too few, small ones and
\* the test's.
NumOutputsTried == ((0 - 1)..MaxC) \cup {TestNumOutputs}

\* new InnerProductOp<Backend>("matmul", workspace()); the input is created,
\* filled with 1, 2, 3, ..., added to the workspace and set.
newInnerProductOp ==
    /\ pc = "start"
    /\ \E dims \in InnerProductInputs, backend \in DOMAIN Backends :
        ip' = [backend |-> backend, numOutputs |-> 0,
               inputs |-> << [name |-> "input",
                              shape |-> TensorShape(dims, Backends[backend].Alignment),
                              layout |-> "NC",
                              data |-> fillTensorWithSequentialFloat32Data(
                                           storageSize(TensorShape(dims,
                                               Backends[backend].Alignment)), 1)],
                             None >>,
               outputs |-> << None >>,
               weightsTensorsCreated |-> FALSE, outputTensorsCreated |-> FALSE,
               workspace |-> << "input" >>,
               made |-> << >>, calls |-> 0, last |-> "", valid |-> None,
               ran |-> FALSE,
               at |-> "new"]
    /\ pc' = "ip"
    /\ UNCHANGED <<opVars, optVars, searchVars, spadVars, mkl, kernelVars, shapeCase, validated, ops>>

\* matMulOp->setNumOutputs(n).
setNumOutputs ==
    /\ pc = "ip"
    /\ ip.at = "new"
    /\ \E n \in NumOutputsTried :
        ip' = [ip EXCEPT !.numOutputs = n, !.at = "numbered"]
    /\ UNCHANGED <<opVars, optVars, searchVars, spadVars, mkl, kernelVars, shapeCase, validated, ops, pc>>

\* matMulOp->validate(), once; what Operator::validate() returns is open.
ipValidate ==
    /\ pc = "ip"
    /\ ip.at = "numbered"
    /\ ip.valid = None
    /\ \E base \in BOOLEAN :
        ip' = [ip EXCEPT !.valid = [base |-> base,
                                    returned |-> InnerProductOp_validate(ip, base)]]
    /\ UNCHANGED <<opVars, optVars, searchVars, spadVars, mkl, kernelVars, shapeCase, validated, ops, pc>>

\* The user creates a weights tensor, adds it to the workspace and sets it:
\* matMulOp->setInput(weights, Weights).
ipSetInput ==
    /\ pc = "ip"
    /\ ip.at = "numbered"
    /\ ip.calls < MaxCalls
    /\ LET weights == newTensor("userWeights", inferWeightsShape(ip))
       IN  ip' = [ip EXCEPT !.workspace = Append(@, weights.name),
                            !.inputs[Weights + 1] = weights,
                            !.calls = @ + 1,
                            !.last = "setInput"]
    /\ UNCHANGED <<opVars, optVars, searchVars, spadVars, mkl, kernelVars, shapeCase, validated, ops, pc>>

\* The user creates an output tensor, adds it to the workspace and sets it:
\* matMulOp->setOutput(output, Outputs).
ipSetOutput ==
    /\ pc = "ip"
    /\ ip.at = "numbered"
    /\ ip.calls < MaxCalls
    /\ LET output == newTensor("userOutput", inferOutputShape(ip))
       IN  ip' = [ip EXCEPT !.workspace = Append(@, output.name),
                            !.outputs[Outputs + 1] = output,
                            !.calls = @ + 1,
                            !.last = "setOutput"]
    /\ UNCHANGED <<opVars, optVars, searchVars, spadVars, mkl, kernelVars, shapeCase, validated, ops, pc>>

\* matMulOp->createWeightsTensors().
ipCreateWeightsTensors ==
    /\ pc = "ip"
    /\ ip.at = "numbered"
    /\ ip.calls < MaxCalls
    /\ ip' = called(ip, createWeightsTensors(ip), "createWeightsTensors")
    /\ UNCHANGED <<opVars, optVars, searchVars, spadVars, mkl, kernelVars, shapeCase, validated, ops, pc>>

\* matMulOp->createOutputTensors().
ipCreateOutputTensors ==
    /\ pc = "ip"
    /\ ip.at = "numbered"
    /\ ip.calls < MaxCalls
    /\ ip' = called(ip, createOutputTensors(ip), "createOutputTensors")
    /\ UNCHANGED <<opVars, optVars, searchVars, spadVars, mkl, kernelVars, shapeCase, validated, ops, pc>>

\* matMulOp->createAllTensors().
createAllTensors ==
    /\ pc = "ip"
    /\ ip.at = "numbered"
    /\ ip.calls < MaxCalls
    /\ ip' = called(ip, createOutputTensors(createWeightsTensors(ip)), "createAllTensors")
    /\ UNCHANGED <<opVars, optVars, searchVars, spadVars, mkl, kernelVars, shapeCase, validated, ops, pc>>

\* allocateAllTensors<float>(matMulOp) and
\* weightsTensor->fillData<float>({...}) of one of the test's sections.
fillWeights ==
    /\ pc = "ip"
    /\ ip.at = "numbered"
    /\ ip.numOutputs > 0
    /\ at(ip.inputs, Weights) # None
    /\ at(ip.outputs, Outputs) # None
    /\ \E section \in {"constant", "distinct"} :
        LET dims == at(ip.inputs, Weights).shape.dims
        IN  ip' = [ip EXCEPT !.inputs[Weights + 1].data = testWeights(section, dims[1], dims[2]),
                             !.outputs[Outputs + 1] = allocateStorage(@),
                             !.at = section]
    /\ UNCHANGED <<opVars, optVars, searchVars, spadVars, mkl, kernelVars, shapeCase, validated, ops, pc>>

\* matMulOp->run() on the reference backend.
innerProductRun ==
    /\ pc = "ip"
    /\ ip.at \in {"constant", "distinct"}
    /\ ip.backend = "Reference"
    /\ ~ip.ran
    /\ ip' = [ip EXCEPT !.outputs[Outputs + 1].data =
                            refInnerProduct(at(ip.inputs, Inputs), at(ip.inputs, Weights),
                                            at(ip.outputs, Outputs)),
                        !.ran = TRUE]
    /\ UNCHANGED <<opVars, optVars, searchVars, spadVars, mkl, kernelVars, shapeCase, validated, ops, pc>>

\* The data types of the inputs handed to the custom operator.
DataTypes == {"Float16", "Float32", "Float64", "Int32"}

\* MyCustomOperator::validate(): input0.getShape() == input1.getShape() ||
\* input0.getDataType() != Float32 || input1.getDataType() != Float32.
validate(input0, input1) ==
    \/ input0.shape = input1.shape
    \/ input0.dataType # "Float32"
    \/ input1.dataType # "Float32"

\* The network is built with two inputs set on the operator, and validated.
opValidate ==
    /\ ~validated.done
    /\ \E shape0 \in SmallShapes, shape1 \in SmallShapes,
          dataType0 \in DataTypes, dataType1 \in DataTypes :
        LET input0 == [shape |-> shape0, dataType |-> dataType0]
            input1 == [shape |-> shape1, dataType |-> dataType1]
        IN  validated' = [done |-> TRUE, input0 |-> input0, input1 |-> input1,
                          accepted |-> validate(input0, input1)]
    /\ UNCHANGED <<opVars, optVars, searchVars, spadVars, mkl, kernelVars, shapeCase, ip, ops, pc>>

\* The shapes of the tensors of a model file: of one or two dimensions, with
\* the alignment of the backend the model is for.
ProtoShapes ==
    {TensorShape(<<c>>, a) : c \in 1..MaxLastDim, a \in {ReferenceAlignment, SmvAlignment}}
        \cup {TensorShape(<<n, c>>, a) : n \in 1..MaxExtent, c \in 1..MaxLastDim,
                                         a \in {ReferenceAlignment, SmvAlignment}}

\* A tensor of a model file is created: its shape (dims, alignment) and data
\* type, the last dimension as stored, and the storage it is allocated.
createTensorFromProto ==
    /\ \E shape \in ProtoShapes, dataTypeSize \in DataTypeSizes :
        shapeCase' = [done |-> TRUE, shape |-> shape, dataTypeSize |-> dataTypeSize,
                      paddedLast |-> shape.dims[Len(shape.dims)]
                                        + calc_padding(shape.dims[Len(shape.dims)],
                                                       shape.alignment),
                      bytes |-> storageBytes(shape, dataTypeSize)]
    /\ UNCHANGED <<opVars, optVars, searchVars, spadVars, mkl, kernelVars, validated, ip, ops, pc>>

(***************************************************************************)
(* nnet_mkl::matrix_multiply_with_bias (core/backend.h): every device has  *)
(* a session, the sequence of the ops added to it. An op is known by its   *)
(* place in its session, counted from 1.                                   *)
(***************************************************************************)
\* session->last_op(): the op added last.
last_op(session) == Len(session)

\* new InnerProductOp<dtype>(inputs or the last op, weights, results,
\* curr_layer, NUM_TEST_CASES, session->cpu()).
InnerProductOp(input, weights, results0, curr_layer) ==
    [input |-> input, weights |-> weights, results |-> results0, curr_layer |-> curr_layer]

\* session->add_op(op).
add_op(session, op) == Append(session, op)

\* Every op reading the caller's inputs buffer.
matrix_multiply_with_bias_from_inputs(session, inputs0, weights, curr_layer, results0) ==
    add_op(session, InnerProductOp([buffer |-> inputs0], weights, results0, curr_layer))

\* matrix_multiply_with_bias(inputs, weights, curr_layer, results, device) as
\* it changes the session of get_session(device).
matrix_multiply_with_bias_on(session, inputs0, weights, curr_layer, results0) ==
    IF session = <<>>
    THEN add_op(session, InnerProductOp([buffer |-> inputs0], weights, results0, curr_layer))
    ELSE add_op(session, InnerProductOp([op |-> last_op(session)], weights, results0,
                                        curr_layer))

\* A call of matrix_multiply_with_bias; the layers are numbered as the calls
\* are made, every layer with its own weights and results.
matrix_multiply_with_bias ==
    /\ pc = "start"
    /\ Len(mkl.calls) < MaxOps
    /\ \E device \in Devices, inputs0 \in Buffers :
        LET curr_layer == Len(mkl.calls) + 1
            call == [device |-> device, inputs |-> inputs0, weights |-> <<"weights", curr_layer>>,
                     results |-> <<"results", curr_layer>>, curr_layer |-> curr_layer]
        IN  mkl' = [session |-> [mkl.session EXCEPT ![device] =
                                    matrix_multiply_with_bias_on(@, call.inputs, call.weights,
                                                                 call.curr_layer, call.results)],
                    calls |-> Append(mkl.calls, call)]
    /\ UNCHANGED <<opVars, optVars, searchVars, spadVars, kernelVars, shapeCase, validated, ip, ops, pc>>

(***************************************************************************)
(* The convolution kernel of the SMV backend,                              *)
(* smv_conv3d_f32_nhwc_same_padding_vec_fxp (convolution_simd.c). Arrays   *)
(* are kept as their vectors of VECTOR_SIZE lanes in storage order; every  *)
(* index is 0-based as in the C code.                                      *)
(***************************************************************************)
NUM_PE_INSTS == 8
NUM_MACC_INSTS == 4
VECTOR_SIZE == 8

min2(a, b) == Min(a, b)
FRAC_CEIL(a, b) == CeilDiv(a, b)

\* const v8fp_t zero.
zero == [lane \in 1..VECTOR_SIZE |-> 0]

\* The locals the kernel computes from its arguments.
result_rows == kargs.results_dims[2]
result_cols == kargs.results_dims[3]
result_height == kargs.results_dims[4]
k_rows == kargs.weights_dims[2]
k_cols == kargs.weights_dims[3]
k_height == kargs.weights_dims[4]
k_pad == kargs.weights_pad
a_rows == kargs.inputs_dims[2]
a_cols == kargs.inputs_dims[3]
a_height == kargs.inputs_dims[4]
a_pad == kargs.inputs_pad
total_row_pad == k_rows - 1
total_col_pad == k_cols - 1
left_pad == k_rows \div 2
right_pad == total_col_pad - left_pad
top_pad == k_cols \div 2
bottom_pad == total_row_pad - top_pad
end_row == a_rows + top_pad + bottom_pad - k_rows + 1
end_col == a_cols + left_pad + right_pad - k_cols + 1
valid_row_end == a_rows - 1
valid_col_end == a_cols - 1
pe_depth == VECTOR_SIZE * NUM_MACC_INSTS
kEffNumPeInsts == min2(result_height - kargs.ofmap_start, NUM_PE_INSTS)
num_chan_blocks == (k_height - 1) \div pe_depth

\* The vectors along the channels of a pixel of the inputs and of the results.
inputVectors == (a_height + a_pad) \div VECTOR_SIZE
resultVectors == (result_height + kargs.results_pad) \div VECTOR_SIZE

\* The data of the inputs array and of the weights array, zero in the padding
\* of the channels.
inputsData(in_row, in_col, channel) ==
    IF channel < a_height THEN 1 + ((in_row + 2 * in_col + channel) % 3) ELSE 0

weightsData(ofmap, kern_row, kern_col, channel) ==
    IF channel < k_height THEN 1 + ((ofmap + kern_row + kern_col + channel) % 2) ELSE 0

\* _a[in_row][in_col][v].
inputsVector(in_row, in_col, v) ==
    [lane \in 1..VECTOR_SIZE |-> inputsData(in_row, in_col, v * VECTOR_SIZE + lane - 1)]

\* _kernels[ofmap][kern_row][kern_col][v].
weightsVector(ofmap, kern_row, kern_col, v) ==
    [lane \in 1..VECTOR_SIZE |->
        weightsData(ofmap, kern_row, kern_col, v * VECTOR_SIZE + lane - 1)]

\* The position in the results array of _result[out_i][out_j][v].
resultIndex(out_i, out_j, v) == (out_i * result_cols + out_j) * resultVectors + v

\* Lines 96-102: the groups of channels of this iteration over the channels.
max_ch_grp_of(ifmap_iters) ==
    IF ifmap_iters = num_chan_blocks
    THEN FRAC_CEIL(k_height - ifmap_iters * pe_depth, VECTOR_SIZE)
    ELSE NUM_MACC_INSTS

\* The padding test that looks at the rows and the channel groups only.
is_padding_rows_only(in_row, in_col, macc_idx, max_ch_grp) ==
    \/ in_row < 0 \/ in_row > valid_row_end
    \/ macc_idx >= max_ch_grp

\* Lines 146-158: in_padding_row || in_padding_col || macc_idx >= max_ch_grp.
is_padding(in_row, in_col, macc_idx, max_ch_grp) ==
    \/ in_row < 0 \/ in_row > valid_row_end
    \/ in_col < 0 \/ in_col > valid_col_end
    \/ macc_idx >= max_ch_grp

\* Lines 166-188 for one processing element: the products of its kernel
\* registers and the activation registers, reduced to one number.
accum_reg(pe_id, kern_row, kern_col, ifmap_offset, max_ch_grp, act) ==
    SumOver([macc_idx \in 0..(NUM_MACC_INSTS - 1) |->
                LET kernel_reg == IF macc_idx >= max_ch_grp THEN zero
                                  ELSE weightsVector(kargs.ofmap_start + pe_id, kern_row,
                                                     kern_col, ifmap_offset + macc_idx)
                IN  SumOver([lane \in 1..VECTOR_SIZE |->
                                kernel_reg[lane] * act[macc_idx + 1][lane]],
                            1..VECTOR_SIZE)],
            0..(NUM_MACC_INSTS - 1))

\* The results buffer starting from zero at the first kernel column of every
\* kernel row.
start_from_zero_each_kernel_row(l) ==
    ~kargs.accumulate /\ l.kern_col = 0 /\ l.ifmap_iters = 0

\* Lines 91-92: !accumulate && kern_row == 0 && kern_col == 0 &&
\* ifmap_iters == 0.
start_from_zero(l) ==
    ~kargs.accumulate /\ l.kern_row = 0 /\ l.kern_col = 0 /\ l.ifmap_iters = 0

\* What earlier calls left in vector v (counted from 1) of the results array.
resultsBefore(v) == [lane \in 1..VECTOR_SIZE |-> v + lane]

\* The loop variables after the body at one output position: the innermost
\* loop that has an iteration left goes on, the ones inside it start over.
nextLoop(l) ==
    IF l.out_col + kargs.col_stride < end_col
    THEN [l EXCEPT !.out_col = @ + kargs.col_stride, !.out_j = @ + 1]
    ELSE IF l.out_row + kargs.row_stride < end_row
    THEN [l EXCEPT !.out_row = @ + kargs.row_stride, !.out_i = @ + 1,
                   !.out_col = 0, !.out_j = 0]
    ELSE IF l.ifmap_iters + 1 < num_chan_blocks + 1
    THEN [l EXCEPT !.ifmap_iters = @ + 1,
                   !.out_row = 0, !.out_i = 0, !.out_col = 0, !.out_j = 0]
    ELSE IF l.kern_col + 1 < k_cols
    THEN [l EXCEPT !.kern_col = @ + 1, !.ifmap_iters = 0,
                   !.out_row = 0, !.out_i = 0, !.out_col = 0, !.out_j = 0]
    ELSE IF l.kern_row + 1 < k_rows
    THEN [l EXCEPT !.kern_row = @ + 1, !.kern_col = 0, !.ifmap_iters = 0,
                   !.out_row = 0, !.out_i = 0, !.out_col = 0, !.out_j = 0]
    ELSE [l EXCEPT !.done = TRUE]

\* The channels of the inputs and of the weights of a call.
ChannelCounts == {3, 40}

\* <<row_stride, col_stride>> of a call.
Strides == {<<1, 1>>, <<1, 2>>, <<2, 1>>}

\* <<ofmap_start, result_height>> of a call.
OfmapCases == {<<0, 4>>, <<0, 9>>, <<1, 9>>, <<8, 16>>}

\* The call of the kernel on one tile: the inputs and the weights have the
\* same channels, the results have a pixel for every stride of the inputs;
\* the results array holds what earlier calls left in it.
convEnter ==
    /\ pc = "start"
    /\ \E rows \in 1..MaxImage, cols \in 1..MaxImage,
          kernRows \in 1..MaxKernel, kernCols \in 1..MaxKernel,
          channels \in ChannelCounts, stride \in Strides, ofmaps \in OfmapCases,
          accumulate \in BOOLEAN :
        LET outRows == CeilDiv(rows, stride[1])
            outCols == CeilDiv(cols, stride[2])
            outVectors == (ofmaps[2] + calc_padding(ofmaps[2], SmvAlignment)) \div VECTOR_SIZE
        IN  /\ kargs' = [inputs_dims |-> <<1, rows, cols, channels>>,
                         weights_dims |-> <<ofmaps[2], kernRows, kernCols, channels>>,
                         results_dims |-> <<1, outRows, outCols, ofmaps[2]>>,
                         inputs_pad |-> calc_padding(channels, SmvAlignment),
                         weights_pad |-> calc_padding(channels, SmvAlignment),
                         results_pad |-> calc_padding(ofmaps[2], SmvAlignment),
                         row_stride |-> stride[1], col_stride |-> stride[2],
                         ofmap_start |-> ofmaps[1], ifmap_start |-> 0,
                         accumulate |-> accumulate]
            /\ results' = [v \in 1..(outRows * outCols * outVectors) |-> resultsBefore(v)]
    /\ kloop' = [kern_row |-> 0, kern_col |-> 0, ifmap_iters |-> 0, out_row |-> 0,
                 out_col |-> 0, out_i |-> 0, out_j |-> 0, done |-> FALSE, overrun |-> FALSE,
                 steps |-> 0, visits |-> {}]
    /\ act_reg' = [macc_idx \in 1..NUM_MACC_INSTS |-> zero]
    /\ reads' = {}
    /\ pc' = "kernel"
    /\ UNCHANGED <<opVars, optVars, searchVars, spadVars, mkl, shapeCase, validated, ip, ops>>

\* Lines 134-193, the body of the loops at one output position: the results
\* buffer is loaded (or zeroed), the activations are loaded (or zeroed), every
\* active processing element adds its reduced product to its lane, and the
\* buffer is written back. A results vector outside the array is undefined
\* behaviour: what is read is any value, the write is noted as an overrun.
\* History: the steps taken, and the loop variables and the results index of
\* each of them.
convOutputPosition ==
    /\ pc = "kernel"
    /\ ~kloop.done
    /\ LET ifmap_offset == (kloop.ifmap_iters * pe_depth) \div VECTOR_SIZE
           max_ch_grp == max_ch_grp_of(kloop.ifmap_iters)
           in_row == kloop.out_row - top_pad + kloop.kern_row
           in_col == kloop.out_col - left_pad + kloop.kern_col
           loaded == {macc_idx \in 0..(NUM_MACC_INSTS - 1) :
                         ~is_padding(in_row, in_col, macc_idx, max_ch_grp)}
           act == [m \in 1..NUM_MACC_INSTS |->
                      IF (m - 1) \in loaded
                      THEN inputsVector(in_row, in_col, ifmap_offset + m - 1)
                      ELSE zero]
           at_result == resultIndex(kloop.out_i, kloop.out_j, kargs.ofmap_start) + 1
           inside == at_result \in 1..Len(results)
       IN  \E junk \in JunkValues :
            LET loaded_buffer == IF start_from_zero(kloop) THEN zero
                                 ELSE IF inside THEN results[at_result]
                                 ELSE [lane \in 1..VECTOR_SIZE |-> junk]
                results_buffer ==
                    [lane \in 1..VECTOR_SIZE |->
                        IF lane - 1 < kEffNumPeInsts
                        THEN loaded_buffer[lane]
                                 + accum_reg(lane - 1, kloop.kern_row, kloop.kern_col,
                                             ifmap_offset, max_ch_grp, act)
                        ELSE loaded_buffer[lane]]
            IN  /\ (inside \/ start_from_zero(kloop)) => junk = 0
                /\ act_reg' = act
                /\ reads' = {<<in_row, in_col, ifmap_offset + macc_idx>> : macc_idx \in loaded}
                /\ results' = IF inside THEN [results EXCEPT ![at_result] = results_buffer]
                              ELSE results
                /\ kloop' = [nextLoop(kloop) EXCEPT
                                !.overrun = @ \/ ~inside,
                                !.steps = @ + 1,
                                !.visits = @ \cup {<<kloop.kern_row, kloop.kern_col,
                                                      kloop.ifmap_iters, kloop.out_i,
                                                      kloop.out_j, kargs.ofmap_start>>}]
    /\ pc' = IF kloop'.done THEN "kernelDone" ELSE "kernel"
    /\ UNCHANGED <<opVars, optVars, searchVars, spadVars, mkl, kargs, shapeCase, validated, ip, ops>>

(***************************************************************************)
(* The optimizer at work on one tensor.                                    *)
(***************************************************************************)
Shapes4D ==
    {TensorShape(<<n, h, w, c>>, a) :
        n \in 1..MaxDimN, h \in 1..MaxDimH, w \in 1..MaxDimW, c \in 1..MaxDimC,
        a \in {ReferenceAlignment, SmvAlignment}}

\* The operator hands over its input tensor, the minimum tile shape (one
\* batch, the rows and columns of its window, a floor on the channels) and
\* the maximum tile size.
chooseProblem ==
    /\ pc = "start"
    /\ \E shape \in Shapes4D, maxTileElems \in 1..MaxTileElems :
       \E fieldRows \in 1..shape.dims[DimsH], minC \in {1, shape.dims[DimsC]} :
            problem' = [tensor |-> Tensor(shape, Float32Size,
                                          fillTensorWithSequentialFloat32Data(storageSize(shape), 0)),
                        minShape |-> <<1, fieldRows, Min(fieldRows, shape.dims[DimsW]), minC>>,
                        maxTileSize |-> maxTileElems]
    /\ pc' = "problem"
    /\ UNCHANGED <<opVars, searchVars, spadVars, inputTilingDims, tileConfig, generated, flat>>
    /\ UNCHANGED unitVars

\* Element-wise and unary operators pick no strategy: the biggest tile, and
\* the tiles per batch.
unaryDoTiling ==
    /\ pc = "problem"
    /\ \E copyData \in BOOLEAN :
        generated' = [by |-> "generateTiledTensorPerBatchNC", copyData |-> copyData,
                      tiles |-> generateTiledTensorPerBatchNC(
                                    problem.tensor,
                                    TensorShape(<<1, Min(problem.maxTileSize,
                                                         storageSize(problem.tensor.shape))>>,
                                                ReferenceAlignment),
                                    copyData)]
    /\ pc' = "tiles"
    /\ UNCHANGED <<opVars, searchVars, spadVars, problem, inputTilingDims, tileConfig, flat>>
    /\ UNCHANGED unitVars

\* Step 1: the tiling strategy; none that fits is a fatal error.
determineBestTilingDims ==
    /\ pc = "problem"
    /\ inputTilingDims' = findBestTilingDims(problem.tensor.shape, problem.maxTileSize,
                                             problem.minShape)
    /\ pc' = IF inputTilingDims' = "Invalid" THEN "infeasible" ELSE "strategy"
    /\ UNCHANGED <<opVars, searchVars, spadVars, problem, tileConfig, generated, flat>>
    /\ UNCHANGED unitVars

\* Step 2: a tile shape of the strategy.
computeBasicTileShapes ==
    /\ pc = "strategy"
    /\ \E config \in enum4DTensorTilingConfigs(
                        problem.tensor.shape, problem.maxTileSize,
                        SmallestTile(inputTilingDims, problem.tensor.shape, problem.minShape)) :
            tileConfig' = config
    /\ pc' = "shape"
    /\ UNCHANGED <<opVars, searchVars, spadVars, problem, inputTilingDims, generated, flat>>
    /\ UNCHANGED unitVars

\* Step 3: the tiles, without overlap, or with overlap when a tile holds a
\* whole window.
generateTiles ==
    /\ pc = "shape"
    /\ \E copyData \in BOOLEAN :
        \/ generated' = [by |-> "generateTiledTensor", copyData |-> copyData,
                         tiles |-> generateTiledTensor(problem.tensor, tileConfig, copyData)]
        \/ \E stride \in 1..problem.minShape[DimsH] :
            /\ tileConfig.dims[DimsH] >= problem.minShape[DimsH]
            /\ tileConfig.dims[DimsW] >= problem.minShape[DimsW]
            /\ generated' = [by |-> "generateTiledTensorWithStrideAndPadding", copyData |-> copyData,
                             tiles |-> generateTiledTensorWithStrideAndPadding(
                                           problem.tensor, tileConfig,
                                           <<problem.minShape[DimsH], problem.minShape[DimsW]>>,
                                           <<stride, Min(stride, problem.minShape[DimsW])>>,
                                           copyData)]
    /\ pc' = "tiles"
    /\ UNCHANGED <<opVars, searchVars, spadVars, problem, inputTilingDims, tileConfig, flat>>
    /\ UNCHANGED unitVars

\* Step 4, its end: the tiles are flattened into a tensor of the parent's shape.
flattenGenerated ==
    /\ pc = "tiles"
    /\ LET dest == [k \in 1..storageSize(problem.tensor.shape) |-> Unwritten]
       IN  flat' = IF generated.by = "generateTiledTensorPerBatchNC"
                   THEN flattenTiledTensor(generated.tiles, dest)
                   ELSE flattenTiles(generated.tiles, problem.tensor.shape, dest)
    /\ pc' = "flat"
    /\ UNCHANGED <<opVars, searchVars, spadVars, problem, inputTilingDims, tileConfig, generated>>
    /\ UNCHANGED unitVars

\* The operator's loop over output tiles, generated without data: the kernel
\* writes every element of tile t, here t plus a multiple of the element's
\* place in the tile, so that tiles that share an element hold different
\* values for it.
computeTiles ==
    /\ pc = "tiles"
    /\ generated.by \in {"generateTiledTensor", "generateTiledTensorWithStrideAndPadding"}
    /\ ~generated.copyData
    /\ \E scale \in JunkValues :
        generated' = [generated EXCEPT !.tiles =
            [t \in 1..Len(generated.tiles) |->
                [generated.tiles[t] EXCEPT !.data =
                    [x \in DOMAIN generated.tiles[t].data |->
                        t + scale * StorageIndex(x, generated.tiles[t].shape)]]]]
    /\ pc' = "computed"
    /\ UNCHANGED <<opVars, searchVars, spadVars, problem, inputTilingDims, tileConfig, flat>>
    /\ UNCHANGED unitVars

\* The end of the operator's run: the output tiles are flattened into the
\* output tensor, of the shape the tiles were generated for.
flattenOutputs ==
    /\ pc = "computed"
    /\ flat' = flattenTiles(generated.tiles, problem.tensor.shape,
                            [k \in 1..storageSize(problem.tensor.shape) |-> 0])
    /\ pc' = "merged"
    /\ UNCHANGED <<opVars, searchVars, spadVars, problem, inputTilingDims, tileConfig, generated>>
    /\ UNCHANGED unitVars

(***************************************************************************)
(* The search of the best tile shapes of a convolution, strategy DimN for  *)
(* the inputs and for the weights.                                         *)
(***************************************************************************)
\* Step 1: the inputs' tile shapes of strategy DimN; the minimum shape is the
\* inputs' shape with a batch of one.
inputConfigs(inputsShape, maxTileElems) ==
    LET minShape == [inputsShape.dims EXCEPT ![DimsN] = 1]
    IN  enum4DTensorTilingConfigs(inputsShape, maxTileElems,
                                  TensorShape(minShape, inputsShape.alignment))

\* Every processing element taken as used, whatever the number of output
\* feature maps.
allPEsOfmaps(weightsShape) == kNumPEs

\* min(weightsShape[0], kNumPEs).
minOfmaps(weightsShape) == Min(weightsShape.dims[DimsN], kNumPEs)

\* Step 2, the loop over n from the given one on, by steps of kNumPEs: the
\* weights' tile has n output feature maps and the channels of the inputs'
\* tile; the loop is left at the first tile above the maximum tile size.
RECURSIVE weightConfigsFrom(_, _, _, _)
weightConfigsFrom(n, tileOfInputs, weightsShape, maxTileElems) ==
    IF n > weightsShape.dims[DimsN] THEN {}
    ELSE LET weights == TensorShape(
                 [weightsShape.dims EXCEPT ![DimsN] = n,
                                           ![DimsC] = tileOfInputs.dims[DimsC]],
                 weightsShape.alignment)
         IN  IF storageSize(weights) <= maxTileElems
             THEN {[inputs |-> tileOfInputs, weights |-> weights]}
                      \cup weightConfigsFrom(n + kNumPEs, tileOfInputs, weightsShape, maxTileElems)
             ELSE {}

inputWeightConfigs(inputsShape, weightsShape, maxTileElems) ==
    UNION {weightConfigsFrom(minOfmaps(weightsShape), tileOfInputs, weightsShape, maxTileElems) :
              tileOfInputs \in inputConfigs(inputsShape, maxTileElems)}

\* Step 3: the output tile of a pair of an inputs' and a weights' tile, for a
\* convolution of stride one without padding.
outputShapeOf(config) ==
    TensorShape(<<config.inputs.dims[DimsN],
                  config.inputs.dims[DimsH] - config.weights.dims[DimsH] + 1,
                  config.inputs.dims[DimsW] - config.weights.dims[DimsW] + 1,
                  config.weights.dims[DimsN]>>,
                config.inputs.alignment)

\* The configurations of inputs', weights' and output tile, the ones left out
\* whose output tile is above the maximum tile size.
fullConfigs(inputsShape, weightsShape, maxTileElems) ==
    {full \in {[inputs |-> c.inputs, weights |-> c.weights, outputs |-> outputShapeOf(c)] :
                  c \in inputWeightConfigs(inputsShape, weightsShape, maxTileElems)} :
        storageSize(full.outputs) <= maxTileElems}

\* The scratchpad space a configuration uses.
getTotalSize(config) ==
    storageSize(config.inputs) + storageSize(config.weights) + storageSize(config.outputs)

\* The configurations scored by the weights' tile alone.
largestWeightsConfigs(configs) ==
    {c \in configs :
        \A other \in configs : storageSize(other.weights) <= storageSize(c.weights)}

\* The configurations that use the least scratchpad space.
leastConfigs(configs) ==
    {c \in configs : \A other \in configs : getTotalSize(c) <= getTotalSize(other)}

\* Step 4: the configurations that use the most scratchpad space.
bestConfigs(configs) ==
    {c \in configs : \A other \in configs : getTotalSize(other) <= getTotalSize(c)}

\* Among equally good configurations, one of the largest inputs' tile.
tieBreak(best) ==
    CHOOSE c \in best :
        \A other \in best : storageSize(other.inputs) <= storageSize(c.inputs)

\* The result of a search: whether there is a configuration, and the best one,
\* among equally good ones the one of the largest inputs' tile.
searchResult(inputsShape, weightsShape, maxTileElems) ==
    LET best == bestConfigs(fullConfigs(inputsShape, weightsShape, maxTileElems))
    IN  IF best = {} THEN [maxTileSize |-> maxTileElems, chosen |-> FALSE, config |-> <<>>]
        ELSE [maxTileSize |-> maxTileElems, chosen |-> TRUE, config |-> tieBreak(best)]

\* A convolution of the SMV backend: inputs N x H x 1 x C, weights
\* ofmaps x kH x 1 x C, one vector of channels.
chooseConvolution ==
    /\ pc = "start"
    /\ \E n \in 1..MaxBatch, h \in 1..MaxRows, ofmaps \in 1..MaxOfmaps :
        \E kh \in 1..h :
            conv' = [inputs |-> TensorShape(<<n, h, 1, SmvAlignment>>, SmvAlignment),
                     weights |-> TensorShape(<<ofmaps, kh, 1, SmvAlignment>>, SmvAlignment)]
    /\ pc' = "conv"
    /\ UNCHANGED <<opVars, optVars, spadVars, searches, enumerated>>
    /\ UNCHANGED unitVars

\* smv::conv::computeBasicTileShapes for a maximum tile size at which DimN is
\* the strategy of the inputs and of the weights.
convComputeBasicTileShapes ==
    /\ pc = "conv"
    /\ Len(searches) < MaxSearches
    /\ \E v \in 1..MaxTileVectors :
        LET maxTileElems == v * SmvAlignment
        IN  /\ findBestTilingDims(conv.inputs, maxTileElems,
                                  [conv.inputs.dims EXCEPT ![DimsN] = 1]) = "DimN"
            /\ findBestTilingDims(conv.weights, maxTileElems,
                                  [conv.weights.dims EXCEPT ![DimsN] = minOfmaps(conv.weights)])
                   = "DimN"
            /\ searches' = Append(searches,
                                  searchResult(conv.inputs, conv.weights, maxTileElems))
    /\ UNCHANGED <<opVars, optVars, spadVars, conv, enumerated, pc>>
    /\ UNCHANGED unitVars

\* Steps 1 and 2 of smv::conv::computeBasicTileShapes with DimN as the
\* strategy of the inputs and of the weights. The strategies are the
\* recommendations of findBestTilingDims per tensor as the operator combines
\* them: DimN for the weights is the recommendation itself, or the stricter
\* one taken where the weights alone would need no tiling.
enumerateInputWeightConfigs ==
    /\ pc = "conv"
    /\ \E v \in 1..MaxTileVectors :
        LET maxTileElems == v * SmvAlignment
        IN  /\ findBestTilingDims(conv.inputs, maxTileElems,
                                  [conv.inputs.dims EXCEPT ![DimsN] = 1]) = "DimN"
            /\ findBestTilingDims(conv.weights, maxTileElems,
                                  [conv.weights.dims EXCEPT ![DimsN] = minOfmaps(conv.weights)])
                   \in {"None", "DimN"}
            /\ enumerated' = [done |-> TRUE, maxTileSize |-> maxTileElems,
                              configs |-> inputWeightConfigs(conv.inputs, conv.weights,
                                                             maxTileElems)]
    /\ UNCHANGED <<opVars, optVars, spadVars, conv, searches, pc>>
    /\ UNCHANGED unitVars

Next ==
    \/ initGlobals
    \/ createAndFillTensorsWithData
    \/ opTile
    \/ runEnter
    \/ runIteration
    \/ runFlatten

NextTiling ==
    \/ chooseProblem
    \/ unaryDoTiling
    \/ determineBestTilingDims
    \/ computeBasicTileShapes
    \/ generateTiles
    \/ flattenGenerated
    \/ computeTiles
    \/ flattenOutputs

\* The test case with the run() that invokes the kernel on the scratchpads.
NextSpad ==
    \/ initGlobals
    \/ createAndFillTensorsWithData
    \/ opTile
    \/ spadRunEnter
    \/ invokeKernel
    \/ kernelLoad0
    \/ kernelLoad1
    \/ kernelAccumulate
    \/ kernelStore
    \/ spadRunFlatten

NextSearch ==
    \/ chooseConvolution
    \/ convComputeBasicTileShapes

Spec == Init /\ [][Next]_vars

SpecSearch == Init /\ [][NextSearch]_vars

\* Two operators tiled and run in any interleaving of their steps.
NextOperators ==
    \/ initGlobals
    \/ createOperators
    \/ \E k \in Operators : opMaxTileSize(k)
    \/ \E k \in Operators : opGenerateTiledTensor(k)
    \/ \E k \in Operators : opRun(k)

SpecOperators == Init /\ [][NextOperators]_vars

\* The test of the inner product operator.
NextInnerProduct ==
    \/ newInnerProductOp
    \/ setNumOutputs
    \/ ipValidate
    \/ ipSetInput
    \/ ipSetOutput
    \/ ipCreateWeightsTensors
    \/ ipCreateOutputTensors
    \/ createAllTensors
    \/ fillWeights
    \/ innerProductRun

SpecInnerProduct == Init /\ [][NextInnerProduct]_vars

\* Layers run on the devices in any order.
SpecSession == Init /\ [][matrix_multiply_with_bias]_vars

\* The custom operator validated on inputs of any shapes and data types.
SpecValidate == Init /\ [][opValidate]_vars

\* Tensors created from a model file, one after the other.
SpecShape == Init /\ [][createTensorFromProto]_vars

\* The convolution kernel called on one tile.
SpecKernel == Init /\ [][convEnter \/ convOutputPosition]_vars

\* The enumeration of pairs of tiles alone.
SpecEnumeration == Init /\ [][chooseConvolution \/ enumerateInputWeightConfigs]_vars

SpecSpad == Init /\ [][NextSpad]_vars

SpecTiling == Init /\ [][NextTiling]_vars

\* The element-wise operator and the optimizer, either of them run.
SpecTiles == Init /\ [][Next \/ NextTiling]_vars

(***************************************************************************)
(* What is checked.                                                        *)
(***************************************************************************)
\* The place of a strategy in the order of preference.
PlaceOf(tilingDims) ==
    CHOOSE k \in 1..Len(PreferenceOrder) : PreferenceOrder[k] = tilingDims

\* The elements in the smallest tile of the k-th strategy of the order: the
\* minimum tile shape along the dimensions it tiles, the tensor's extent
\* along the other ones, the channels padded.
SmallestTileElems(k) ==
    LET dims == problem.tensor.shape.dims
        tiledDims == TiledDimsOf(PreferenceOrder[k])
        extent(d) == IF d \in tiledDims THEN problem.minShape[d] ELSE dims[d]
    IN  extent(DimsN) * extent(DimsH) * extent(DimsW)
          * (extent(DimsC) + calc_padding(extent(DimsC), problem.tensor.shape.alignment))

\* C1: the strategy found is the first one of the order of preference (no
\* tiling, DimN, DimNC, DimNH, ...) whose smallest tile fits the maximum tile
\* size: every strategy before it does not fit, and no tiling is found
\* exactly when the whole tensor fits.
C1_FirstStrategyThatFits ==
    inputTilingDims \notin {"", "Invalid"} =>
        LET k == PlaceOf(inputTilingDims)
        IN  /\ SmallestTileElems(k) <= problem.maxTileSize
            /\ \A j \in 1..(k - 1) : SmallestTileElems(j) > problem.maxTileSize
            /\ (inputTilingDims = "None")
                   <=> (storageSize(problem.tensor.shape) <= problem.maxTileSize)

\* C1's case: the third strategy tried after no tiling is the one found.
C1_Witness ==
    /\ inputTilingDims = "DimNH"
    /\ problem.tensor.shape.dims[DimsN] > 1

\* The elements the minimum tile shape itself takes.
MinShapeElems ==
    storageSize(TensorShape(problem.minShape, problem.tensor.shape.alignment))

\* C2: when the maximum tile size is below the storage size of the minimum
\* tile shape, the strategy search ends in the fatal error, and no tile shape
\* is picked and no tile is generated or flattened.
C2_InfeasibleGeneratesNothing ==
    (inputTilingDims # "" /\ problem.maxTileSize < MinShapeElems) =>
        /\ inputTilingDims = "Invalid"
        /\ pc = "infeasible"
        /\ tileConfig = <<>>
        /\ generated.tiles = <<>>
        /\ flat = <<>>

\* C2's case: the search has run on a maximum tile size below the minimum tile.
C2_Witness ==
    /\ pc = "infeasible"
    /\ problem.maxTileSize < MinShapeElems
    /\ problem.maxTileSize >= 2

\* C3: every generated tile fits the capacity, its padding counted: a tile
\* that tile() generated, of the inputs or of the output, takes at most
\* kSpadSize bytes, and a tile the optimizer generated at most the maximum
\* tile size.
C3_TilesFitCapacity ==
    /\ \A r \in 1..Len(tiledTensors) : \A t \in 1..Len(tiledTensors[r]) :
          storageBytes(tiledTensors[r][t].shape, at(inputs, kInput0).dataTypeSize) <= kSpadSize
    /\ \A t \in 1..Len(generated.tiles) :
          storageSize(generated.tiles[t].shape) <= problem.maxTileSize

\* C3's case: a tensor cut into several tiles, the first of which fills the
\* scratchpad to less than one element.
C3_Witness ==
    /\ pc = "tiled"
    /\ \A r \in 1..3 : Len(tiledTensors[r]) >= 3
    /\ kSpadSize - storageBytes(tiledTensors[3][1].shape, at(inputs, kInput0).dataTypeSize)
           < at(inputs, kInput0).dataTypeSize
    /\ kSpadSize % at(inputs, kInput0).dataTypeSize # 0

\* The number of tiles holding each element of the tensor that was tiled;
\* for the tiles per batch an element is a position of the storage.
TilesHolding ==
    IF generated.by = "generateTiledTensorPerBatchNC"
    THEN [k \in 0..(storageSize(problem.tensor.shape) - 1) |->
             Cardinality(CoveringTiles(generated.tiles, k))]
    ELSE [x \in Coords(problem.tensor.shape.dims) |->
             Cardinality(CoveringTilesAt(generated.tiles, x))]

\* Every tile lies within the tensor.
TilesWithinTensor ==
    \A t \in 1..Len(generated.tiles) :
        LET tl == generated.tiles[t]
        IN  IF generated.by = "generateTiledTensorPerBatchNC"
            THEN tl.origin >= 0
                 /\ tl.origin + size(tl.shape) <= storageSize(problem.tensor.shape)
            ELSE \A d \in 1..Len(tl.origin) :
                    /\ tl.origin[d] >= 0
                    /\ tl.shape.dims[d] >= 1
                    /\ tl.origin[d] + tl.shape.dims[d] <= problem.tensor.shape.dims[d]

\* C4: the tiles recorded by tile generation (origin and shape) cover the
\* tensor without gaps: every element lies in exactly one tile of the
\* non-overlapping and the per-batch tiles, and in at least one of the
\* overlapping tiles.
C4_TilesCoverTensor ==
    generated.by # "" =>
        /\ TilesWithinTensor
        /\ \A x \in DOMAIN TilesHolding :
              IF generated.by = "generateTiledTensorWithStrideAndPadding"
              THEN TilesHolding[x] >= 1
              ELSE TilesHolding[x] = 1

\* C4's case: overlapping tiles, an element of the tensor in two of them.
C4_Witness ==
    /\ generated.by = "generateTiledTensorWithStrideAndPadding"
    /\ Len(generated.tiles) >= 2
    /\ \E x \in DOMAIN TilesHolding : TilesHolding[x] = 2
    /\ \E x \in DOMAIN TilesHolding : TilesHolding[x] = 1

\* The dimensions along which the generated tiles were cut.
CutDims == TiledDimsOf(inputTilingDims)

FlatEqualsTensor ==
    IF generated.by = "generateTiledTensorPerBatchNC"
    THEN flat = problem.tensor.data
    ELSE \A x \in Coords(problem.tensor.shape.dims) :
            LET k == StorageIndex(x, problem.tensor.shape) + 1
            IN  flat[k] = problem.tensor.data[k]

\* C6 as claimed: tiles generated with copyData and flattened back unchanged
\* give the tensor's data, whatever generated them.
C6_RoundTripAnyTiles ==
    (pc = "flat" /\ generated.copyData) => FlatEqualsTensor

\* C6, amended: tiles generated with copyData by generateTiledTensor or
\* generateTiledTensorPerBatchNC and flattened back unchanged give the
\* tensor's data, element for element.
C6_RoundTripDisjointTiles ==
    (pc = "flat" /\ generated.copyData
        /\ generated.by \in {"generateTiledTensor", "generateTiledTensorPerBatchNC"})
    => FlatEqualsTensor

\* C6's case: several tiles along two dimensions, the last element of the
\* tensor not in the first tile, flattened back.
C6_Witness ==
    /\ pc = "flat"
    /\ generated.copyData
    /\ generated.by = "generateTiledTensor"
    /\ Len(generated.tiles) >= 4
    /\ generated.tiles[2].shape.dims # generated.tiles[1].shape.dims

\* The scratchpad space the configuration found by a search uses: the sum of
\* the storage sizes of its three tiles.
Utilized(search) ==
    storageSize(search.config.inputs) + storageSize(search.config.weights)
        + storageSize(search.config.outputs)

TutorialCase ==
    /\ pc = "tiled"
    /\ at(inputs, kInput0).shape = TutorialShape
    /\ at(inputs, kInput0).dataTypeSize = Float32Size
    /\ kSpadSize = TutorialSpadSize

RECURSIVE ConcatTiles(_)
ConcatTiles(tiles) ==
    IF tiles = <<>> THEN <<>> ELSE Head(tiles).data \o ConcatTiles(Tail(tiles))

\* Each of the tutorial's three tensors is cut into four tiles of the given
\* number of columns, none above 32768 bytes, and the tiles of an input put
\* one after the other give the input.
TutorialTiles(columns) ==
    /\ \A r \in 1..3 :
          /\ Len(tiledTensors[r]) = 4
          /\ \A t \in 1..4 :
                /\ tiledTensors[r][t].shape.dims = <<1, columns>>
                /\ storageBytes(tiledTensors[r][t].shape, Float32Size) <= TutorialSpadSize
    /\ \A r \in 1..2 : ConcatTiles(tiledTensors[r]) = inputs[r].data

\* C8 as claimed: the 8 x 4096 float tensor tiled for 32768 bytes gives
\* exactly 4 tiles of shape [1, 4096].
C8_FourTilesOf4096 == TutorialCase => TutorialTiles(TutorialC)

\* C8, amended: the 8 x 4096 float tensor tiled for 32768 bytes gives exactly
\* 4 tiles of shape [1, 8192], two batches each and 32768 bytes each, and the
\* tiles put one after the other in order give the 8 x 4096 array.
C8_FourTilesOf8192 ==
    TutorialCase =>
        /\ TutorialTiles(TutorialSpadSize \div Float32Size)
        /\ TutorialSpadSize \div Float32Size = 2 * TutorialC
        /\ \A r \in 1..3 : \A t \in 1..4 :
              storageBytes(tiledTensors[r][t].shape, Float32Size) = TutorialSpadSize

\* C8's case: the tutorial's tensors tiled.
C8_Witness == TutorialCase /\ Len(tiledTensors[1]) = 4

\* C9: after tile() and run() every element of the output tensor is the sum
\* of the two inputs' elements at its place, as the untiled element-wise add
\* gives; both inputs filled with 0, 1, 2, ... give 2 * i.
C9_TiledAddIsAdd ==
    pc = "done" =>
        LET input0 == at(inputs, kInput0)
            input1 == at(inputs, kInput1)
            output == at(outputs, kOutput)
        IN  /\ Len(output.data) = storageSize(input0.shape)
            /\ \A k \in 1..Len(output.data) :
                  output.data[k] = input0.data[k] + input1.data[k]
            /\ input1.data = input0.data =>
                  \A k \in 1..Len(output.data) : output.data[k] = 2 * (k - 1)

\* C9's case: the operator has run on three tiles or more, the last one
\* smaller than the others, the inputs different.
C9_Witness ==
    /\ pc = "done"
    /\ Len(tiledTensors[3]) >= 3
    /\ at(inputs, kInput1).data # at(inputs, kInput0).data
    /\ size(tiledTensors[3][Len(tiledTensors[3])].shape) < size(tiledTensors[3][1].shape)

\* C10: the three tile collections that tile() generated have as many tiles;
\* the loop of run() has handed the tiles 0, 1, ..., i - 1 to the kernel, each
\* once and in this order, the tile of run()'s output collection together with
\* the tiles of the two inputs at the same index, origin and shape; when run()
\* is done that is every tile.
C10_LockstepOverTiles ==
    tiledTensors # <<>> =>
        /\ Len(tiledTensors[1]) = Len(tiledTensors[3])
        /\ Len(tiledTensors[2]) = Len(tiledTensors[3])
        /\ Len(computeLog) = loopI
        /\ \A j \in 1..Len(computeLog) :
              /\ computeLog[j].out = j - 1
              /\ computeLog[j].in0 = computeLog[j].out
              /\ computeLog[j].in1 = computeLog[j].out
              /\ \A r \in 1..3 :
                    /\ tiledTensors[r][j].origin = at(tiledTensors, kOutput)[j].origin
                    /\ tiledTensors[r][j].shape = at(tiledTensors, kOutput)[j].shape
        /\ pc = "done" => Len(computeLog) = Len(at(tiledTensors, kOutput))

\* C10's case: run() has gone over three tiles or more.
C10_Witness ==
    /\ pc = "done"
    /\ Len(computeLog) >= 3

\* Whether the step of the tile is in the log before position p.
LoggedBefore(step, i, p) ==
    \E q \in 1..(p - 1) : phaseLog[q].step = step /\ phaseLog[q].tile = i

\* C11: the scratchpad run() goes through its phases in order: nothing is
\* logged before run() starts; a tile is added up only after both its inputs
\* were loaded into the scratchpads, and stored only after it was added up;
\* the tiles come in the order of their index, each step of a tile once; the
\* flattening is the last step, after the store of every tile.
C11_PhasesInOrder ==
    /\ pc \in {"start", "globals", "created", "tiled"} => phaseLog = <<>>
    /\ \A p \in 1..Len(phaseLog) :
          LET e == phaseLog[p]
          IN  /\ e.step = "accumulate" =>
                    LoggedBefore("dmaLoad0", e.tile, p) /\ LoggedBefore("dmaLoad1", e.tile, p)
              /\ e.step = "dmaStore" => LoggedBefore("accumulate", e.tile, p)
              /\ e.step = "flatten" =>
                    /\ p = Len(phaseLog)
                    /\ \A i \in 0..(Len(tiledTensors[3]) - 1) : LoggedBefore("dmaStore", i, p)
              /\ ~LoggedBefore(e.step, e.tile, p)
              /\ \A q \in 1..(p - 1) : phaseLog[q].tile <= e.tile
    /\ pc = "spadDone" =>
          phaseLog # <<>> /\ phaseLog[Len(phaseLog)].step = "flatten"

\* C11's case: the scratchpad run() is done with three tiles or more.
C11_Witness ==
    /\ pc = "spadDone"
    /\ Len(tiledTensors[3]) >= 3
    /\ Len(phaseLog) = 4 * Len(tiledTensors[3]) + 1

\* The storage of the three tiles of a configuration, added up.
TotalOf(c) == storageSize(c.inputs) + storageSize(c.weights) + storageSize(c.outputs)

\* The configurations a search had to pick from.
EnumeratedBy(search) == fullConfigs(conv.inputs, conv.weights, search.maxTileSize)

\* C12: the configuration a search returns is one of those enumerated, each
\* of its tiles fits the maximum tile size, no enumerated configuration uses
\* more space, and none that uses as much has a larger inputs' tile; there is
\* no result exactly when nothing was enumerated.
C12_BestConfigurationChosen ==
    \A k \in 1..Len(searches) :
        LET search == searches[k]
        IN  /\ search.chosen <=> EnumeratedBy(search) # {}
            /\ search.chosen =>
                  /\ search.config \in EnumeratedBy(search)
                  /\ storageSize(search.config.inputs) <= search.maxTileSize
                  /\ storageSize(search.config.weights) <= search.maxTileSize
                  /\ storageSize(search.config.outputs) <= search.maxTileSize
                  /\ \A c \in EnumeratedBy(search) :
                        /\ TotalOf(c) <= TotalOf(search.config)
                        /\ TotalOf(c) = TotalOf(search.config) =>
                              storageSize(c.inputs) <= storageSize(search.config.inputs)

\* C12's case: a search with two configurations of the same, largest use of
\* space and of different inputs' tiles, and one that uses less.
C12_Witness ==
    \E k \in 1..Len(searches) :
        /\ searches[k].chosen
        /\ \E c \in EnumeratedBy(searches[k]) :
              /\ TotalOf(c) = TotalOf(searches[k].config)
              /\ storageSize(c.inputs) < storageSize(searches[k].config.inputs)
        /\ \E c \in EnumeratedBy(searches[k]) : TotalOf(c) < TotalOf(searches[k].config)

\* The weights' tile of n output feature maps that goes with an inputs' tile.
WeightsTileOf(n, tileOfInputs) ==
    TensorShape([conv.weights.dims EXCEPT ![DimsN] = n,
                                          ![DimsC] = tileOfInputs.dims[DimsC]],
                conv.weights.alignment)

\* The numbers of output feature maps paired with an inputs' tile.
OfmapsPairedWith(tileOfInputs) ==
    {c.weights.dims[DimsN] : c \in {d \in enumerated.configs : d.inputs = tileOfInputs}}

\* The full weights fit the maximum tile size.
FullWeightsFit == storageSize(conv.weights) <= enumerated.maxTileSize

\* The number of output feature maps is the least one plus a number of steps
\* of kNumPEs.
FullExtentOnStride ==
    (conv.weights.dims[DimsN] - Min(conv.weights.dims[DimsN], kNumPEs)) % kNumPEs = 0

C13_WitnessSeveralSteps ==
    /\ enumerated.done
    /\ ~FullWeightsFit
    /\ \E tileOfInputs \in inputConfigs(conv.inputs, enumerated.maxTileSize) :
          Cardinality(OfmapsPairedWith(tileOfInputs)) > 1

\* What the tiles up to the t-th hold for the element at coordinate x of the
\* tensor, added up tile by tile.
RECURSIVE HeldUpTo(_, _)
HeldUpTo(t, x) ==
    IF t = 0 THEN 0
    ELSE LET tl == generated.tiles[t]
             y == [d \in 1..Len(x) |-> x[d] - tl.origin[d]]
         IN  HeldUpTo(t - 1, x) + (IF y \in DOMAIN tl.data THEN tl.data[y] ELSE 0)

\* The tiles that hold the element at coordinate x of the tensor.
HoldersOf(x) ==
    {t \in 1..Len(generated.tiles) :
        [d \in 1..Len(x) |-> x[d] - generated.tiles[t].origin[d]]
            \in DOMAIN generated.tiles[t].data}

\* C14: in the output tensor flattened from the output tiles, an element
\* that several tiles hold is the sum of what those tiles hold for it, and
\* an element that one tile holds is what that tile holds for it.
C14_OverlapsAccumulate ==
    pc = "merged" =>
        \A x \in Coords(problem.tensor.shape.dims) :
            LET k == StorageIndex(x, problem.tensor.shape) + 1
            IN  /\ flat[k] = HeldUpTo(Len(generated.tiles), x)
                /\ \A t \in HoldersOf(x) :
                      HoldersOf(x) = {t} =>
                          flat[k] = generated.tiles[t].data[
                                        [d \in 1..Len(x) |-> x[d] - generated.tiles[t].origin[d]]]

\* C14's case: flattened output tiles, an element that two tiles hold with
\* different values, neither of them zero, and an element that one tile holds.
C14_Witness ==
    /\ pc = "merged"
    /\ \E x \in Coords(problem.tensor.shape.dims) :
          /\ Cardinality(HoldersOf(x)) = 2
          /\ \E t, u \in HoldersOf(x) :
                generated.tiles[t].data[[d \in 1..Len(x) |-> x[d] - generated.tiles[t].origin[d]]]
                    # generated.tiles[u].data[[d \in 1..Len(x) |-> x[d] - generated.tiles[u].origin[d]]]
    /\ \E x \in Coords(problem.tensor.shape.dims) : Cardinality(HoldersOf(x)) = 1

\* The place (1-based) in the storage of a tensor N x H x W x C of the element
\* at <<n, h, w, c>>, the last dimension padded to the alignment.
PlaceNHWC(x, shape) ==
    LET channels == shape.dims[DimsC] + calc_padding(shape.dims[DimsC], shape.alignment)
    IN  ((x[DimsN] * shape.dims[DimsH] + x[DimsH]) * shape.dims[DimsW] + x[DimsW]) * channels
            + x[DimsC] + 1

\* The tensor handed to the optimizer holds what it was filled with.
ParentAsFilled ==
    \A k \in 1..Len(problem.tensor.data) : problem.tensor.data[k] = k - 1

\* C15: once tiles are generated the tensor holds the data it held before,
\* with copyData or without; generated with copyData and not yet written by
\* the operator, every tile holds at x the tensor's element at its origin
\* plus x, for the tiles per batch along the storage and for the tiles of a
\* shape in every dimension.
C15_TilesHoldParentData ==
    generated.by # "" =>
        /\ ParentAsFilled
        /\ (pc = "tiles" /\ generated.copyData) =>
              \A t \in 1..Len(generated.tiles) :
                  LET tl == generated.tiles[t]
                  IN  IF generated.by = "generateTiledTensorPerBatchNC"
                      THEN \A k \in 1..size(tl.shape) :
                              tl.data[k] = problem.tensor.data[tl.origin + k]
                      ELSE \A x \in DOMAIN tl.data :
                              tl.data[x] =
                                  problem.tensor.data[
                                      PlaceNHWC([d \in 1..4 |-> tl.origin[d] + x[d]],
                                                problem.tensor.shape)]

\* C15's case: tiles of a shape generated with copyData, one of them with an
\* origin off zero in two dimensions, in a tensor of padded channels.
C15_Witness ==
    /\ pc = "tiles"
    /\ generated.copyData
    /\ generated.by = "generateTiledTensor"
    /\ calc_padding(problem.tensor.shape.dims[DimsC], problem.tensor.shape.alignment) > 0
    /\ \E t \in 1..Len(generated.tiles) :
          /\ generated.tiles[t].origin[DimsN] > 0
          /\ generated.tiles[t].origin[DimsH] > 0

\* The input position the kernel is at, from its loop variables.
AtInRow == kloop.out_row - top_pad + kloop.kern_row
AtInCol == kloop.out_col - left_pad + kloop.kern_col

\* C16: at every kernel offset and output position, the vector of channel
\* group macc_idx at (in_row, in_col) is read from the inputs array, into
\* activation register macc_idx, only when 0 <= in_row <= a_rows - 1,
\* 0 <= in_col <= a_cols - 1 and macc_idx < max_ch_grp; otherwise nothing is
\* read for that register and it is zero; every vector read lies inside the
\* inputs array.
C16_LoadsOnlyInsideImage ==
    [][(pc = "kernel") =>
          LET ifmap_offset == (kloop.ifmap_iters * pe_depth) \div VECTOR_SIZE
          IN  /\ \A macc_idx \in 0..(NUM_MACC_INSTS - 1) :
                    IF /\ 0 <= AtInRow /\ AtInRow <= a_rows - 1
                       /\ 0 <= AtInCol /\ AtInCol <= a_cols - 1
                       /\ macc_idx < max_ch_grp_of(kloop.ifmap_iters)
                    THEN /\ <<AtInRow, AtInCol, ifmap_offset + macc_idx>> \in reads'
                         /\ act_reg'[macc_idx + 1]
                                = inputsVector(AtInRow, AtInCol, ifmap_offset + macc_idx)
                    ELSE /\ <<AtInRow, AtInCol, ifmap_offset + macc_idx>> \notin reads'
                         /\ act_reg'[macc_idx + 1] = zero
              /\ \A r \in reads' :
                    /\ 0 <= r[1] /\ r[1] < kargs.inputs_dims[2]
                    /\ 0 <= r[2] /\ r[2] < kargs.inputs_dims[3]
                    /\ 0 <= r[3] /\ r[3] < inputVectors]_vars

\* C16's case: a kernel of more than one channel block past its first output
\* position, the last position outside the image: nothing was read and every
\* activation register is zero.
C16_Witness ==
    /\ pc = "kernel"
    /\ k_height > pe_depth
    /\ kloop.out_i + kloop.out_j + kloop.ifmap_iters + kloop.kern_row + kloop.kern_col > 0
    /\ reads = {}
    /\ \A macc_idx \in 1..NUM_MACC_INSTS : act_reg[macc_idx] = zero

\* C16's other case: a position inside the image of which only some channel
\* groups are read, the other registers zero.
C16_WitnessChannelGroups ==
    /\ pc = "kernel"
    /\ reads # {}
    /\ Cardinality(reads) < NUM_MACC_INSTS
    /\ \E macc_idx \in 1..NUM_MACC_INSTS : act_reg[macc_idx] = zero

\* The least multiple of the alignment that is not below n; n itself without
\* an alignment.
RoundedUp(n, alignment) ==
    IF alignment = 0 THEN n
    ELSE CHOOSE m \in n..(n + alignment - 1) : m % alignment = 0

\* The product of all dimensions but the last.
RECURSIVE OuterProduct(_)
OuterProduct(dims) ==
    IF Len(dims) <= 1 THEN 1 ELSE Head(dims) * OuterProduct(Tail(dims))

\* C17: the bytes of storage of a tensor are the product of its dimensions,
\* the last one rounded up to a multiple of the alignment (as it is without
\* an alignment), times the size of an element; the shape [4, 3] of alignment
\* 8 with elements of 2 bytes takes 64 bytes; with the alignment of the SMV
\* backend, whose kernels use the VEC_ARRAY macros, the last dimension as
\* stored is a multiple of VECTOR_SIZE.
C17_StorageSize ==
    shapeCase.done =>
        LET dims == shapeCase.shape.dims
            alignment == shapeCase.shape.alignment
        IN  /\ shapeCase.bytes
                  = OuterProduct(dims) * RoundedUp(dims[Len(dims)], alignment)
                        * shapeCase.dataTypeSize
            /\ shapeCase.paddedLast = RoundedUp(dims[Len(dims)], alignment)
            /\ (dims = <<4, 3>> /\ alignment = 8 /\ shapeCase.dataTypeSize = 2)
                  => shapeCase.bytes = 64
            /\ alignment = SmvAlignment => shapeCase.paddedLast % VECTOR_SIZE = 0

\* C17's case: the tensor of the model file fp16_odd, 4 x 3 of Float16 with
\* alignment 8.
C17_Witness ==
    /\ shapeCase.done
    /\ shapeCase.shape = TensorShape(<<4, 3>>, SmvAlignment)
    /\ shapeCase.dataTypeSize = 2
    /\ shapeCase.paddedLast = 8

\* C17's other case: a last dimension above the alignment, padded to twice
\* the alignment.
C17_WitnessAboveAlignment ==
    /\ shapeCase.done
    /\ shapeCase.shape.alignment = SmvAlignment
    /\ shapeCase.paddedLast = 2 * SmvAlignment

\* The output operator k was built with, before its run wrote it.
OutputAsBuilt(k) ==
    [ops[k].outputs EXCEPT ![1].data = [e \in 1..Len(ops[k].outputs[1].data) |-> Unwritten]]

\* C18: the capacity budget does not change once initGlobals has set it; and
\* of operators tiled and run in any interleaving, each one has, once tiled,
\* the tiles that tile() gives for its tensors alone, and once run, the sum
\* of its own inputs in its output.
C18_TilingsIndependent ==
    /\ [][pc # "start" => kSpadSize' = kSpadSize]_vars
    /\ [](pc = "operators" =>
            \A k \in Operators :
                /\ ops[k].at \in {"sized", "tiled", "done"} =>
                      ops[k].maxTileSize
                          = Min(kSpadSize \div Float32Size, storageSize(ops[k].inputs[1].shape))
                /\ ops[k].at = "tiled" =>
                      ops[k].tiledTensors = tile(kSpadSize, ops[k].inputs, OutputAsBuilt(k))
                /\ ops[k].at = "done" =>
                      \A e \in 1..size(ops[k].inputs[1].shape) :
                          ops[k].outputs[1].data[e]
                              = ops[k].inputs[1].data[e] + ops[k].inputs[2].data[e])

\* C18's case: two operators of different shapes, cut into several tiles and
\* not as many, the first one run while the second is in the middle of tile().
C18_Witness ==
    /\ pc = "operators"
    /\ ops[1].inputs[1].shape # ops[2].inputs[1].shape
    /\ ops[1].at = "done"
    /\ ops[2].at = "sized"
    /\ Len(ops[2].tiledTensors) = 1
    /\ Len(ops[1].tiledTensors[1]) > 1
    /\ Len(ops[2].tiledTensors[1]) > 1
    /\ Len(ops[1].tiledTensors[1]) # Len(ops[2].tiledTensors[1])

\* The sum of input[n][c] * weights[c][k] over the channels below c, the
\* input [N][C] and the weights [C][K] in storage order.
RECURSIVE DotBelow(_, _, _)
DotBelow(c, n, k) ==
    IF c = 0 THEN 0
    ELSE DotBelow(c - 1, n, k)
            + ip.inputs[1].data[n * ip.inputs[1].shape.dims[2] + (c - 1) + 1]
                  * ip.inputs[2].data[(c - 1) * ip.numOutputs + k + 1]

\* What the test expects of its two sections.
ExpectedOfTest ==
    [constant |-> <<55, 110, 165, 220, 275, 330, 385, 440, 495, 550>>,
     distinct |-> <<385, 440, 495, 550, 605, 660, 715, 770, 825, 880>>]

\* C19: after createAllTensors and run() on the reference backend, for an
\* input [N, C] and numOutputs = K the weights are [C, K], the output is
\* [N, K], and output[n][k] is the sum over c of input[n][c] * weights[c][k];
\* for the test's input 1..10 the output is what the test expects: 55, 110,
\* ..., 550 with every weights row 1..10.
C19_ReferenceInnerProduct ==
    (pc = "ip" /\ ip.ran) =>
        LET N == ip.inputs[1].shape.dims[1]
            C == ip.inputs[1].shape.dims[2]
            K == ip.numOutputs
        IN  /\ ip.outputs[1].shape.dims = <<N, K>>
            /\ ip.inputs[2].shape.dims = <<C, K>>
            /\ Len(ip.outputs[1].data) = N * K
            /\ \A n \in 0..(N - 1), k \in 0..(K - 1) :
                  ip.outputs[1].data[n * K + k + 1] = DotBelow(C, n, k)
            /\ (N = 1 /\ C = TestChannels /\ K = TestNumOutputs)
                  => ip.outputs[1].data = ExpectedOfTest[ip.at]

\* C19's case: the test's first section, run: input 1..10, every weights row
\* 1..10.
C19_Witness ==
    /\ pc = "ip"
    /\ ip.ran
    /\ ip.at = "constant"
    /\ ip.inputs[1].data = <<1, 2, 3, 4, 5, 6, 7, 8, 9, 10>>
    /\ ip.numOutputs = TestNumOutputs
    /\ ip.outputs[1].data[2] = 110

\* C19's other case: an input of two rows and more channels than outputs, run.
C19_WitnessNotSquare ==
    /\ pc = "ip"
    /\ ip.ran
    /\ ip.inputs[1].shape.dims[1] = 2
    /\ ip.inputs[1].shape.dims[2] > ip.numOutputs
    /\ ip.numOutputs > 1

\* C20 as claimed: validate() accepts exactly when the two inputs have the
\* same shape and both are Float32.
C20_AcceptsSameShapeFloat32Only ==
    validated.done =>
        (validated.accepted <=>
            /\ validated.input0.shape = validated.input1.shape
            /\ validated.input0.dataType = "Float32"
            /\ validated.input1.dataType = "Float32")

\* What validate() does with inputs of different shapes: they are accepted
\* as soon as one of them is not Float32, and rejected only when both are.
C20_DifferentShapesAcceptedUnlessFloat32 ==
    (validated.done /\ validated.input0.shape # validated.input1.shape) =>
        (validated.accepted <=>
            (validated.input0.dataType # "Float32" \/ validated.input1.dataType # "Float32"))

\* The failing input: shapes that differ, the first input Float16, accepted.
C20_FailingInput ==
    /\ validated.done
    /\ validated.input0.shape # validated.input1.shape
    /\ validated.input0.dataType = "Float16"
    /\ validated.input1.dataType = "Float32"
    /\ validated.accepted

\* The tensors of this name the operator allocated itself.
MadeOf(name) == {i \in 1..Len(ip.made) : ip.made[i] = name}

\* The operator's number of outputs is set.
Numbered == pc = "ip" /\ ip.at # "new"

\* C21: for an NC input [N, C] and numOutputs = K, inferOutputShape returns
\* [N, K] in NC layout, and inferWeightsShape returns [K, C] in NC layout on
\* the SMV backend (TransposeFCWeights) and [C, K] in CN layout on the
\* reference backend; both carry the backend's alignment, 8 or 0; so do the
\* tensors the operator creates from them; and validate() returns false
\* whenever numOutputs <= 0, whatever the base class says.
C21_ShapeInference ==
    Numbered =>
        LET N == ip.inputs[1].shape.dims[1]
            C == ip.inputs[1].shape.dims[2]
            K == ip.numOutputs
            alignment == IF ip.backend = "Smv" THEN SmvAlignment ELSE ReferenceAlignment
            outputShape == [shape |-> [dims |-> <<N, K>>, alignment |-> alignment],
                            layout |-> "NC"]
            weightsShape ==
                IF ip.backend = "Smv"
                THEN [shape |-> [dims |-> <<K, C>>, alignment |-> alignment], layout |-> "NC"]
                ELSE [shape |-> [dims |-> <<C, K>>, alignment |-> alignment], layout |-> "CN"]
        IN  /\ ip.inputs[1].layout = "NC"
            /\ inferOutputShape(ip) = outputShape
            /\ inferWeightsShape(ip) = weightsShape
            /\ (ip.outputs[1] # None /\ ip.outputs[1].name = "output")
                  => /\ ip.outputs[1].shape = outputShape.shape
                     /\ ip.outputs[1].layout = "NC"
            /\ (ip.inputs[2] # None /\ ip.inputs[2].name = "weights")
                  => /\ ip.inputs[2].shape = weightsShape.shape
                     /\ ip.inputs[2].layout = weightsShape.layout
            /\ (ip.valid # None /\ K <= 0) => ~ip.valid.returned
            /\ (ip.valid # None /\ K > 0) => (ip.valid.returned <=> ip.valid.base)

\* C21's case: on the SMV backend the operator has created its weights and
\* its output for an input of two rows and more channels than outputs.
C21_Witness ==
    /\ Numbered
    /\ ip.backend = "Smv"
    /\ ip.inputs[1].shape.dims[1] = 2
    /\ ip.inputs[1].shape.dims[2] > ip.numOutputs
    /\ ip.numOutputs > 1
    /\ ip.inputs[2] # None /\ ip.inputs[2].name = "weights"
    /\ ip.outputs[1] # None /\ ip.outputs[1].name = "output"

\* C21's other cases: the same on the reference backend, and an operator
\* without outputs validated when the base class accepts it.
C21_WitnessReference ==
    /\ Numbered
    /\ ip.backend = "Reference"
    /\ ip.inputs[1].shape.dims[2] > ip.numOutputs
    /\ ip.numOutputs > 1
    /\ ip.inputs[2] # None /\ ip.inputs[2].name = "weights"

C21_WitnessNoOutputs ==
    /\ Numbered
    /\ ip.numOutputs <= 0
    /\ ip.valid # None
    /\ ip.valid.base
    /\ ~ip.valid.returned

\* The step is a call of createWeightsTensors, createOutputTensors or
\* createAllTensors.
CreateCall ==
    /\ pc = "ip" /\ pc' = "ip"
    /\ ip.at = "numbered"
    /\ ip'.calls = ip.calls + 1
    /\ ip'.last \in {"createWeightsTensors", "createOutputTensors", "createAllTensors"}

\* C22: over any sequence of createWeightsTensors, createOutputTensors and
\* createAllTensors calls, with setInput and setOutput calls of the user among
\* them, the operator creates at most one weights tensor and at most one
\* output tensor and adds each to the workspace once; a call never replaces a
\* weights or output tensor that is already set, whoever set it; and a call
\* that finds both set changes nothing.
C22_CreateIdempotent ==
    /\ [](pc = "ip" =>
            /\ Cardinality(MadeOf("weights")) <= 1
            /\ Cardinality(MadeOf("output")) <= 1
            /\ Len(ip.made) = Cardinality(MadeOf("weights")) + Cardinality(MadeOf("output"))
            /\ \A name \in {"weights", "output"} :
                  Cardinality({i \in 1..Len(ip.workspace) : ip.workspace[i] = name})
                      = Cardinality(MadeOf(name)))
    /\ [][CreateCall =>
            /\ ip.inputs[2] # None => ip'.inputs[2] = ip.inputs[2]
            /\ ip.outputs[1] # None => ip'.outputs[1] = ip.outputs[1]
            /\ (ip.inputs[2] # None /\ ip.outputs[1] # None)
                  => ip' = [ip EXCEPT !.calls = ip'.calls, !.last = ip'.last]]_vars

\* C22's case: three calls, the last one createAllTensors, after which the
\* operator has created one weights tensor and one output tensor.
C22_Witness ==
    /\ Numbered
    /\ ip.calls = MaxCalls
    /\ ip.last = "createAllTensors"
    /\ ip.made \in {<<"weights", "output">>, <<"output", "weights">>}
    /\ ip.workspace \in {<<"input", "weights", "output">>, <<"input", "output", "weights">>}

\* C22's other case: createAllTensors called after the user set the weights.
C22_WitnessUserWeights ==
    /\ Numbered
    /\ ip.last = "createAllTensors"
    /\ ip.inputs[2] # None /\ ip.inputs[2].name = "userWeights"
    /\ ip.made = <<"output">>

\* C23 as claimed: weightsTensorsCreated is true exactly when the operator
\* itself created the weights tensor, and outputTensorsCreated is true
\* exactly when the operator itself created the output tensor.
C23_FlagsTellWhoCreated ==
    pc = "ip" =>
        /\ ip.weightsTensorsCreated <=> MadeOf("weights") # {}
        /\ ip.outputTensorsCreated <=> MadeOf("output") # {}

\* The half of C23 about the weights alone.
C23_WeightsFlagTellsWhoCreated ==
    pc = "ip" => (ip.weightsTensorsCreated <=> MadeOf("weights") # {})

\* The input C23 fails on: createOutputTensors() called on an operator whose
\* output is not set; the operator creates the output tensor, and
\* outputTensorsCreated is still false.
C23_FailingInput ==
    /\ Numbered
    /\ ip.calls = 1
    /\ ip.last = "createOutputTensors"
    /\ ip.made = <<"output">>
    /\ ip.outputs[1] # None /\ ip.outputs[1].name = "output"
    /\ ~ip.outputTensorsCreated

\* The input at a channel of a pixel, zero around the image, and the weight
\* at a channel of a kernel's pixel.
InputAt(in_row, in_col, channel) ==
    IF in_row < 0 \/ in_row > a_rows - 1 \/ in_col < 0 \/ in_col > a_cols - 1 THEN 0
    ELSE inputsData(in_row, in_col, channel)

WeightAt(ofmap, kern_row, kern_col, channel) ==
    weightsData(ofmap, kern_row, kern_col, channel)

\* The products of the first c channels at one kernel offset, added up.
RECURSIVE ChannelDot(_, _, _, _, _, _)
ChannelDot(c, in_row, in_col, ofmap, kern_row, kern_col) ==
    IF c = 0 THEN 0
    ELSE ChannelDot(c - 1, in_row, in_col, ofmap, kern_row, kern_col)
            + InputAt(in_row, in_col, c - 1) * WeightAt(ofmap, kern_row, kern_col, c - 1)

\* The convolution of kernel ofmap at an output position: the sum over the
\* kernel's rows, columns and channels, the image padded as the kernel pads it.
ConvSum(out_i, out_j, ofmap) ==
    LET offsets == (0..(k_rows - 1)) \X (0..(k_cols - 1))
    IN  SumOver([k \in offsets |->
                    ChannelDot(k_height,
                               out_i * kargs.row_stride - top_pad + k[1],
                               out_j * kargs.col_stride - left_pad + k[2],
                               ofmap, k[1], k[2])],
                offsets)

\* The output positions of results_dims, and a channel of the results at one
\* of them, now and before the call.
OutputPositions == (0..(result_rows - 1)) \X (0..(result_cols - 1))

ResultChannel(out_i, out_j, channel) ==
    results[resultIndex(out_i, out_j, channel \div VECTOR_SIZE) + 1][(channel % VECTOR_SIZE) + 1]

BeforeChannel(out_i, out_j, channel) ==
    resultsBefore(resultIndex(out_i, out_j, channel \div VECTOR_SIZE) + 1)[(channel % VECTOR_SIZE) + 1]

\* C24: when the kernel has returned, every results vector it wrote holds, in
\* the lane of each active processing element, the full convolution sum over
\* kernel rows, kernel columns and channels, alone with accumulate = false
\* (whatever the vector held before the call) and added to what the vector
\* held before the call with accumulate = true; the other lanes of the vector
\* hold zero resp. what they held before.
C24_AccumulateSemantics ==
    pc = "kernelDone" =>
        \A pos \in OutputPositions :
            LET written == resultIndex(pos[1], pos[2], kargs.ofmap_start) + 1
            IN  written \in 1..Len(results) =>
                    \A lane \in 1..VECTOR_SIZE :
                        results[written][lane]
                            = (IF kargs.accumulate THEN resultsBefore(written)[lane] ELSE 0)
                              + (IF lane - 1 < kEffNumPeInsts
                                 THEN ConvSum(pos[1], pos[2], kargs.ofmap_start + lane - 1)
                                 ELSE 0)

\* C24's case: accumulate = false, a 2 x 2 kernel of more than one channel
\* block on a 2 x 2 image; the vector written first held something else
\* before the call, and holds sums now.
C24_Witness ==
    /\ pc = "kernelDone"
    /\ ~kargs.accumulate
    /\ k_rows = 2 /\ k_cols = 2 /\ k_height > pe_depth
    /\ a_rows = 2 /\ a_cols = 2
    /\ kargs.ofmap_start = 0
    /\ resultsBefore(1)[1] # 0
    /\ results[1][1] = ConvSum(0, 0, 0)
    /\ results[1][1] > 0

\* C24's other case: the same call with accumulate = true.
C24_WitnessAccumulate ==
    /\ pc = "kernelDone"
    /\ kargs.accumulate
    /\ k_rows = 2 /\ k_cols = 2 /\ k_height > pe_depth
    /\ a_rows = 2 /\ a_cols = 2
    /\ kargs.ofmap_start = 0
    /\ results[1][1] = resultsBefore(1)[1] + ConvSum(0, 0, 0)
    /\ ConvSum(0, 0, 0) > 0

\* C25 as claimed: when the kernel has returned, every result channel other
\* than the kEffNumPeInsts channels from ofmap_start on holds, at every output
\* position, what it held before the call, with accumulate = false as well as
\* with accumulate = true.
C25_OnlyActiveChannelsModified ==
    pc = "kernelDone" =>
        \A pos \in OutputPositions :
            \A channel \in 0..(result_height + kargs.results_pad - 1) :
                channel \notin kargs.ofmap_start..(kargs.ofmap_start + kEffNumPeInsts - 1)
                    => ResultChannel(pos[1], pos[2], channel)
                           = BeforeChannel(pos[1], pos[2], channel)

\* The part of C25 that holds: a results vector the kernel does not address
\* holds what it held before the call.
C25_OtherVectorsKept ==
    pc = "kernelDone" =>
        \A v \in 1..Len(results) :
            (\A pos \in OutputPositions :
                    v # resultIndex(pos[1], pos[2], kargs.ofmap_start) + 1)
                => results[v] = resultsBefore(v)

\* The input C25 fails on: accumulate = false, four output feature maps from
\* ofmap_start = 0 on: lanes 4 to 7 of the vector written first were not zero
\* before the call and are zero after it.
C25_FailingInput ==
    /\ pc = "kernelDone"
    /\ ~kargs.accumulate
    /\ kargs.ofmap_start = 0
    /\ kEffNumPeInsts = 4
    /\ \A lane \in 5..VECTOR_SIZE : resultsBefore(1)[lane] # 0 /\ results[1][lane] = 0

\* C26 as claimed: when the kernel has returned, result channel
\* ofmap_start + pe_id of every output position holds the convolution sum of
\* kernel ofmap_start + pe_id (added to what it held before with
\* accumulate = true), for every active pe_id and every ofmap_start.
C26_StoredAtOfmapChannel ==
    pc = "kernelDone" =>
        \A pos \in OutputPositions :
            \A pe_id \in 0..(kEffNumPeInsts - 1) :
                ResultChannel(pos[1], pos[2], kargs.ofmap_start + pe_id)
                    = (IF kargs.accumulate
                       THEN BeforeChannel(pos[1], pos[2], kargs.ofmap_start + pe_id)
                       ELSE 0)
                      + ConvSum(pos[1], pos[2], kargs.ofmap_start + pe_id)

\* The input C26 fails on: ofmap_start = 1 with nine output feature maps and
\* accumulate = true: the sum of kernel 1 is added to channel 8 of the first
\* output pixel, and channel 1 holds what it held before the call.
C26_FailingInput ==
    /\ pc = "kernelDone"
    /\ kargs.accumulate
    /\ kargs.ofmap_start = 1
    /\ result_height = 9
    /\ ConvSum(0, 0, 1) > 0
    /\ ResultChannel(0, 0, 1) = BeforeChannel(0, 0, 1)
    /\ ResultChannel(0, 0, VECTOR_SIZE) = BeforeChannel(0, 0, VECTOR_SIZE) + ConvSum(0, 0, 1)

\* C27 as claimed: top_pad + bottom_pad = k_rows - 1 and
\* left_pad + right_pad = k_cols - 1; the row pads are the floor and the
\* ceiling of (k_rows - 1) / 2 and the column pads those of (k_cols - 1) / 2,
\* so each follows from its own axis alone; and no pad is negative.
C27_PadsSplitPerAxis ==
    pc \in {"kernel", "kernelDone"} =>
        /\ top_pad + bottom_pad = k_rows - 1
        /\ left_pad + right_pad = k_cols - 1
        /\ {top_pad, bottom_pad} = {(k_rows - 1) \div 2, k_rows \div 2}
        /\ {left_pad, right_pad} = {(k_cols - 1) \div 2, k_cols \div 2}
        /\ top_pad >= 0 /\ bottom_pad >= 0 /\ left_pad >= 0 /\ right_pad >= 0

\* The part of C27 that holds: the pads of each axis add up to the kernel's
\* extent less one, so that end_row = a_rows and end_col = a_cols.
C27_PadsAddUp ==
    pc \in {"kernel", "kernelDone"} =>
        /\ top_pad + bottom_pad = k_rows - 1
        /\ left_pad + right_pad = k_cols - 1
        /\ end_row = a_rows
        /\ end_col = a_cols

\* The input C27 fails on: a kernel of one row and two columns: top_pad is 1
\* and bottom_pad is -1.
C27_FailingInput ==
    /\ pc = "kernel"
    /\ k_rows = 1 /\ k_cols = 2
    /\ top_pad = 1
    /\ bottom_pad = 0 - 1
    /\ left_pad = 0 /\ right_pad = 1

\* The kernel offsets and channel blocks of a call.
KernelPasses ==
    (0..(k_rows - 1)) \X (0..(k_cols - 1)) \X (0..num_chan_blocks)

\* Every step so far was at another (kernel row, kernel column, channel block,
\* output position), the positions inside results_dims; and when the kernel
\* has returned, every one of them was visited.
PositionsOnceAndInside ==
    /\ kloop.steps = Cardinality(kloop.visits)
    /\ \A v \in kloop.visits :
          /\ <<v[1], v[2], v[3]>> \in KernelPasses
          /\ <<v[4], v[5]>> \in OutputPositions
    /\ result_rows = CeilDiv(a_rows, kargs.row_stride)
    /\ result_cols = CeilDiv(a_cols, kargs.col_stride)
    /\ pc = "kernelDone" =>
          {<<v[1], v[2], v[3], v[4], v[5]>> : v \in kloop.visits}
              = {<<p[1], p[2], p[3], o[1], o[2]>> : p \in KernelPasses, o \in OutputPositions}

\* C28 as claimed: for each (kernel row, kernel column, channel block) every
\* output position of results_dims is visited exactly once, and every index
\* of the results array read or written, the one along the channels too, lies
\* inside results_dims.
C28_ResultIndicesInside ==
    pc \in {"kernel", "kernelDone"} =>
        /\ PositionsOnceAndInside
        /\ \A v \in kloop.visits : v[6] \in 0..(resultVectors - 1)
        /\ ~kloop.overrun

\* The part of C28 that holds: the visits and the row and column indices.
C28_PositionsOnceAndInside ==
    pc \in {"kernel", "kernelDone"} => PositionsOnceAndInside

\* The input C28 fails on: sixteen output feature maps, the second eight of
\* them computed (ofmap_start = 8): the results have two vectors for each
\* pixel, vector 8 is addressed, and the last pixel's is past the array.
C28_FailingInput ==
    /\ pc = "kernelDone"
    /\ kargs.ofmap_start = 8
    /\ result_height = 16
    /\ resultVectors = 2
    /\ kloop.overrun
    /\ \E v \in kloop.visits : v[6] = 8

\* The tiles as tile() generated them.
TilesAsGenerated == tile(kSpadSize, inputs, outputs)

\* C29 as claimed: in the tiled run() the compute step writes the tiles
\* generated without their data, tiledTensors[2]: after iteration i its tile i
\* holds the sum of tile i of tiledTensors[0] and of tiledTensors[1]; the two
\* collections of input tiles stay as tile() generated them; and the output
\* tensor is flattened from the collection that was written.
C29_RunWritesOutputTiles ==
    pc \in {"loop", "done"} =>
        /\ tiledTensors[1] = TilesAsGenerated[1]
        /\ tiledTensors[2] = TilesAsGenerated[2]
        /\ \A i \in 1..loopI :
              tiledTensors[3][i].data
                  = elementwise_add(TilesAsGenerated[1][i].data, TilesAsGenerated[2][i].data,
                                    TilesAsGenerated[3][i].data,
                                    size(TilesAsGenerated[3][i].shape))
        /\ pc = "done" =>
              at(outputs, kOutput).data
                  = flattenTiledTensor(tiledTensors[3],
                                       [k \in 1..Len(at(outputs, kOutput).data) |-> Unwritten])

\* What run() does instead: the sums are written over the tiles of input 0,
\* tiledTensors[kOutput], which is the collection flattened; the tiles of
\* input 1 and the tiles generated for the output stay as generated.
C29_RunWritesOverInput0Tiles ==
    pc \in {"loop", "done"} =>
        /\ tiledTensors[2] = TilesAsGenerated[2]
        /\ tiledTensors[3] = TilesAsGenerated[3]
        /\ \A i \in 1..loopI :
              tiledTensors[1][i].data
                  = elementwise_add(TilesAsGenerated[1][i].data, TilesAsGenerated[2][i].data,
                                    TilesAsGenerated[1][i].data,
                                    size(TilesAsGenerated[1][i].shape))
        /\ pc = "done" =>
              at(outputs, kOutput).data
                  = flattenTiledTensor(tiledTensors[1],
                                       [k \in 1..Len(at(outputs, kOutput).data) |-> Unwritten])

\* The input C29 fails on: any run of more than one tile with a second input
\* that is not zero: when run() has returned, no tile of tiledTensors[2] was
\* written and the tiles of tiledTensors[0] hold the sums.
C29_FailingInput ==
    /\ pc = "done"
    /\ Len(tiledTensors[3]) > 1
    /\ tiledTensors[3] = TilesAsGenerated[3]
    /\ \A i \in 1..Len(tiledTensors[3]) :
          \A k \in 1..Len(tiledTensors[3][i].data) : tiledTensors[3][i].data[k] = Unwritten
    /\ \A i \in 1..Len(tiledTensors[1]) : tiledTensors[1][i] # TilesAsGenerated[1][i]

\* The calls made on a device, in the order they were made.
CallsOn(device) == SelectSeq(mkl.calls, LAMBDA call : call.device = device)

\* C30: every call of matrix_multiply_with_bias appends exactly one op to the
\* session of its device and leaves everything else as it was; the ops of a
\* session are those of the calls on its device in call order; the first
\* reads the inputs buffer of its call, and every later one takes its input
\* from the op just before it, so the ops form one chain.
C30_SessionIsOneChain ==
    /\ [](\A device \in Devices :
            LET session == mkl.session[device]
                calls == CallsOn(device)
            IN  /\ Len(session) = Len(calls)
                /\ \A i \in 1..Len(session) :
                      /\ session[i].weights = calls[i].weights
                      /\ session[i].results = calls[i].results
                      /\ session[i].curr_layer = calls[i].curr_layer
                      /\ session[i].input = IF i = 1 THEN [buffer |-> calls[1].inputs]
                                            ELSE [op |-> i - 1])
    /\ [][mkl' # mkl =>
            \E device \in Devices :
                /\ Len(mkl'.session[device]) = Len(mkl.session[device]) + 1
                /\ SubSeq(mkl'.session[device], 1, Len(mkl.session[device]))
                       = mkl.session[device]
                /\ \A other \in Devices \ {device} :
                       mkl'.session[other] = mkl.session[other]]_vars

\* C30's case: three calls on one device with a call on the other device
\* among them, the later calls with another inputs buffer than the first.
C30_Witness ==
    /\ Len(mkl.calls) = 4
    /\ Len(mkl.session["cpu0"]) = 3
    /\ mkl.calls[2].device = "cpu1"
    /\ mkl.session["cpu0"][1].input = [buffer |-> "a"]
    /\ mkl.calls[3].inputs = "b"
    /\ mkl.calls[4].inputs = "b"
    /\ mkl.session["cpu0"][3].input = [op |-> 2]

====
